---- MODULE Spec2Model ----
(***************************************************************************)
(* A model of fillmore-labs/async-exp: the channel-based Promise / Future  *)
(* pair, the lock-free Memoizer built on it, the fan-in loop YieldAll, and *)
(* the struct-based Promise / Future pair (value.complete, Future.Await,   *)
(* Future.Try).  Every goroutine is a process with a program counter; one  *)
(* action is one atomic step of the Go code (one channel operation, one    *)
(* atomic counter operation, one store).                                   *)
(***************************************************************************)
EXTENDS Integers, Sequences, FiniteSets, TLC

(***************************************************************************)
(* Bounds of the model.                                                    *)
(***************************************************************************)
\* The number of registrations with one cell over all calls: a Wait, TryWait,
\* Await or Try call is one, a fan-in over k items is k.
NumReaders == 2

\* The goroutines that call Wait, TryWait, Await or Try.
Readers == 1 .. NumReaders

\* The goroutine that runs the fan-in loop.
FanIn == 0

Procs == Readers \cup {FanIn}

Resolvers == {1, 2}

\* The number of Futures handed to a combinator, each with a Promise of its own.
NumItems == 2

Items == 1 .. NumItems

(***************************************************************************)
(* Errors.  A Go error is modelled as its Unwrap chain, outermost message  *)
(* first; the nil error is the empty chain.                                *)
(***************************************************************************)
Nil == << >>

ErrNotReady == << "future not ready" >>

ErrNoResult == << "no result" >>

Canceled == << "context canceled" >>

ErrCause == << "cause" >>

ErrTest(p) == << "test error", ToString(p) >>

NilDeref == << "nil pointer dereference" >>

\* fmt.Errorf("<msg>: %w", err): a new error whose Unwrap is err.
Wrap(msg, err) == << msg >> \o err

\* errors.Is(err, target): target is a suffix of the Unwrap chain.
ErrorIs(err, target) ==
    /\ target # Nil
    /\ Len(err) >= Len(target)
    /\ SubSeq(err, Len(err) - Len(target) + 1, Len(err)) = target

(***************************************************************************)
(* context.Context: live, cancelled by cancel(), or cancelled with a cause *)
(* (context.WithCancelCause).                                              *)
(***************************************************************************)
CtxStates == {"live", "canceled", "cause"}

CtxFired(c) == c # "live"

\* ctx.Err()
CtxErr(c) == IF c = "live" THEN Nil ELSE Canceled

\* context.Cause(ctx)
CtxCause(c) == IF c = "live" THEN Nil ELSE IF c = "cause" THEN ErrCause ELSE Canceled

(***************************************************************************)
(* Result values.  The channel-based package has valueResult and           *)
(* errorResult; a nil Result is the unset interface value.                 *)
(***************************************************************************)
NilResult == [type |-> "nil", value |-> 0, err |-> Nil]

valueResult(v) == [type |-> "valueResult", value |-> v, err |-> Nil]

errorResult(e) == [type |-> "errorResult", value |-> 0, err |-> e]

\* Result.V(): (value, nil) for a valueResult, (zero, err) for an errorResult;
\* calling a method of the nil interface panics.
V(res) ==
    IF res.type = "valueResult" THEN << res.value, Nil >>
    ELSE IF res.type = "errorResult" THEN << 0, res.err >>
    ELSE << 0, NilDeref >>

\* The Result of the struct-based package (package result): OfValue, OfError,
\* Of and the accessor V.
OfValue(v) == [type |-> "Value", value |-> v, err |-> Nil]

OfError(e) == [type |-> "Error", value |-> 0, err |-> e]

Of(v, e) == IF e # Nil THEN OfError(e) ELSE OfValue(v)

ResultV(res) ==
    IF res.type = "Value" THEN << res.value, Nil >>
    ELSE IF res.type = "Error" THEN << 0, res.err >>
    ELSE << 0, NilDeref >>

\* The outcome of the work function handed to Promise.Do: (value, error).
FnOutcomes(p) == { << p, Nil >>, << 0, ErrTest(p) >> }

VARIABLES
    ch,        \* the channel shared by a channel-based Promise and Future
    ppc,       \* program counter of each resolving call
    pcall,     \* method and argument of each resolving call
    running,   \* Memoizer.running
    mdone,     \* Memoizer.done: how many times it was closed
    mvalue,    \* Memoizer.value
    pc,        \* program counter of each reader
    kind,      \* the call a reader is making
    ctx,       \* the context a reader passes
    rcv,       \* the Result a reader received from the channel
    ret,       \* what the reader's call returned
    yl,        \* the locals of a reader's YieldAll call
    atCall,    \* history: whether the cell was resolved when the reader called
    sent,      \* history: the Result the producer put into the channel
    closedBy,  \* history: the readers that executed close(m.done), in order
    cdone,     \* value.done: how many times it was closed
    cv,        \* value.v
    cqueue,    \* value.queue: a channel of capacity 1 holding the callback list
    cpc,       \* program counter of each call of value.complete
    ccall,     \* method and argument of each resolving call of the struct-based Promise
    cfirst,    \* history: value.v at the moment value.done was closed
    cbq,       \* the callback list a caller of onComplete holds between receive and send
    cbrun,     \* history: how often each callback was invoked, with what and by whom
    regs,      \* history: the callbacks in the order in which they were appended
    drained,   \* history: the callbacks in the order in which complete invoked them
    dcell,     \* the cell created by Transform or AndThen for each of their calls
    ich,       \* the channel of each item handed to a combinator
    ipc,       \* program counter of the call that resolves each item
    isent,     \* history: the Result the producer of each item put into its channel
    idone,     \* value.done of each struct-based item handed to the iterator: closed or not
    iv,        \* value.v of each struct-based item
    iready,    \* history: the struct-based items in the order in which their done was closed
    yanswers,  \* history: what yield returned to the iterator, call by call
    swap       \* history: how the CompareAndSwap of each reader's processResult ended

vars == << ch, ppc, pcall, running, mdone, mvalue, pc, kind, ctx, rcv, ret, yl,
           atCall, sent, closedBy, cdone, cv, cqueue, cpc, ccall, cfirst,
           cbq, cbrun, regs, drained, dcell, ich, ipc, isent,
           idone, iv, iready, yanswers, swap >>

chanVars == << ch, ppc, pcall, sent >>

memoVars == << running, mdone, mvalue, closedBy >>

readerVars == << pc, kind, ctx, rcv, ret, yl, atCall >>

cellVars == << cdone, cv, cqueue, cpc, ccall, cfirst >>

cbVars == << cbq, cbrun, regs, drained, dcell >>

itemVars == << ich, ipc, isent >>

seqVars == << idone, iv, iready, yanswers, swap >>

NoCall == [method |-> "none", res |-> NilResult, late |-> FALSE, queue |-> << >>]

NoYield == [k |-> 0, mode |-> "none", stop |-> "none", added |-> 0, i |-> 0, valid |-> {},
            released |-> {}, chosen |-> 0, todo |-> {}, deliv |-> << >>, err |-> Nil,
            results |-> << >>]

NoRet == << 0, << "pending" >> >>

NoRun == [n |-> 0, res |-> NilResult, by |-> << "none", 0 >>]

NoCell == [fn |-> "none", pc |-> "none", arg |-> NilResult, applied |-> FALSE,
           done |-> 0, v |-> NilResult]

Init ==
    /\ ch = [buf |-> << >>, closed |-> FALSE]
    /\ ppc = [p \in Resolvers |-> "idle"]
    /\ pcall = [p \in Resolvers |-> NoCall]
    /\ running = 0
    /\ mdone = 0
    /\ mvalue = NilResult
    /\ pc = [r \in Procs |-> "idle"]
    /\ kind = [r \in Procs |-> "none"]
    /\ ctx = [r \in Procs |-> "live"]
    /\ rcv = [r \in Procs |-> NilResult]
    /\ ret = [r \in Procs |-> NoRet]
    /\ yl = [r \in Procs |-> NoYield]
    /\ atCall = [r \in Procs |-> FALSE]
    /\ sent = NilResult
    /\ closedBy = << >>
    /\ cdone = 0
    /\ cv = NilResult
    /\ cqueue = [buf |-> << << >> >>, closed |-> FALSE]
    /\ cpc = [p \in Resolvers |-> "idle"]
    /\ ccall = [p \in Resolvers |-> NoCall]
    /\ cfirst = NilResult
    /\ cbq = [r \in Readers |-> << >>]
    /\ cbrun = [r \in Readers |-> NoRun]
    /\ regs = << >>
    /\ drained = << >>
    /\ dcell = [r \in Readers |-> NoCell]
    /\ ich = [i \in Items |-> [buf |-> << >>, closed |-> FALSE]]
    /\ ipc = [i \in Items |-> "idle"]
    /\ isent = [i \in Items |-> NilResult]
    /\ idone = [i \in Items |-> FALSE]
    /\ iv = [i \in Items |-> NilResult]
    /\ iready = << >>
    /\ yanswers = << >>
    /\ swap = [r \in Procs |-> "none"]

(***************************************************************************)
(* The channel-based Promise: Fulfill, Reject and Do send one Result into  *)
(* the channel (capacity 1) and close it.                                  *)
(***************************************************************************)
ChanCap == 1

\* Promise.Fulfill(value), Promise.Reject(err) or Promise.Do(f) is called; Do
\* runs f first and then calls Fulfill or Reject with its outcome.  A later
\* call is made once the call before it has returned or has failed.
PromiseCall(p, method, res) ==
    /\ ppc[p] = "idle"
    /\ \A q \in Resolvers : q < p => ppc[q] \in {"returned", "panicked"}
    /\ ppc' = [ppc EXCEPT ![p] = "send"]
    /\ pcall' = [pcall EXCEPT ![p] = [NoCall EXCEPT !.method = method, !.res = res,
                                                      !.late = \E q \in Resolvers : ppc[q] = "returned"]]
    /\ UNCHANGED << ch, sent, memoVars, readerVars, cellVars, cbVars, itemVars, seqVars >>

Fulfill(p) ==
    PromiseCall(p, "Fulfill", valueResult(p))

ChanReject(p) ==
    PromiseCall(p, "Reject", errorResult(ErrTest(p)))

ChanDo(p) ==
    \E out \in FnOutcomes(p) :
        PromiseCall(p, "Do", IF out[2] = Nil THEN valueResult(out[1])
                                             ELSE errorResult(out[2]))

\* A send into a channel without a buffer: it waits for a receiver in Wait.
PromiseSend_Unbuffered(p) ==
    /\ ppc[p] = "send"
    /\ ch.closed \/ \E r \in Readers : pc[r] = "fSelect"
    /\ IF ch.closed
         THEN /\ ppc' = [ppc EXCEPT ![p] = "panicked"]
              /\ UNCHANGED << ch, sent >>
         ELSE /\ ch' = [ch EXCEPT !.buf = Append(@, pcall[p].res)]
              /\ sent' = IF sent = NilResult THEN pcall[p].res ELSE sent
              /\ ppc' = [ppc EXCEPT ![p] = "close"]
    /\ UNCHANGED << pcall, memoVars, readerVars, cellVars, cbVars, itemVars, seqVars >>

\* p <- result: panics on a closed channel, blocks while the buffer is full.
PromiseSend(p) ==
    /\ ppc[p] = "send"
    /\ ch.closed \/ Len(ch.buf) < ChanCap
    /\ IF ch.closed
         THEN /\ ppc' = [ppc EXCEPT ![p] = "panicked"]
              /\ UNCHANGED << ch, sent >>
         ELSE /\ ch' = [ch EXCEPT !.buf = Append(@, pcall[p].res)]
              /\ sent' = IF sent = NilResult THEN pcall[p].res ELSE sent
              /\ ppc' = [ppc EXCEPT ![p] = "close"]
    /\ UNCHANGED << pcall, memoVars, readerVars, cellVars, cbVars, itemVars, seqVars >>

\* close(p): panics on a closed channel.
PromiseClose(p) ==
    /\ ppc[p] = "close"
    /\ IF ch.closed
         THEN /\ ppc' = [ppc EXCEPT ![p] = "panicked"]
              /\ UNCHANGED ch
         ELSE /\ ch' = [ch EXCEPT !.closed = TRUE]
              /\ ppc' = [ppc EXCEPT ![p] = "returned"]
    /\ UNCHANGED << pcall, sent, memoVars, readerVars, cellVars, cbVars, itemVars, seqVars >>

\* The producer abandons the Promise: close(p) without a Result.
CloseEmpty ==
    /\ \A p \in Resolvers : ppc[p] = "idle"
    /\ ~ch.closed
    /\ ch' = [ch EXCEPT !.closed = TRUE]
    /\ ppc' = [ppc EXCEPT ![1] = "returned"]
    /\ pcall' = [pcall EXCEPT ![1] = [NoCall EXCEPT !.method = "close"]]
    /\ UNCHANGED << sent, memoVars, readerVars, cellVars, cbVars, itemVars, seqVars >>

\* A receive from the channel can proceed: a buffered Result or a closed channel.
ChanReady == Len(ch.buf) > 0 \/ ch.closed

\* The source is resolved: a Result was sent, or the channel was closed empty.
SourceResolved == sent # NilResult \/ ch.closed

(***************************************************************************)
(* The cancellation signal of a reader's context fires.                    *)
(***************************************************************************)
\* A call reads its context only in its select, so a signal that fired before
\* the call and one that fires while the call is at the select give the same
\* state: the signal is let fire when the reader is at a select.
Cancel(r, c) ==
    /\ ctx[r] = "live"
    /\ c # "live"
    /\ pc[r] \in {"select", "ySelect", "awaiting", "wSelect", "sSelect"}
    /\ ctx' = [ctx EXCEPT ![r] = c]
    /\ UNCHANGED << chanVars, memoVars, pc, kind, rcv, ret, yl, atCall, cellVars, cbVars, itemVars, seqVars >>

\* The registrations made so far.
Registered == Cardinality({r \in Readers : pc[r] # "idle"}) + yl[FanIn].k

\* Readers are interchangeable: they are numbered in the order of their calls.
MayCall(r) ==
    /\ pc[r] = "idle"
    /\ \A q \in Readers : q < r => pc[q] # "idle"
    /\ Registered < NumReaders

(***************************************************************************)
(* The Memoizer.  Wait and TryWait count themselves in with addRunning and *)
(* select on the source channel; processResult caches what was received.   *)
(***************************************************************************)

\* Memoizer.Wait(ctx): m.addRunning(), then the select.
MemoWaitCall(r) ==
    /\ MayCall(r)
    /\ running' = running + 1
    /\ pc' = [pc EXCEPT ![r] = "select"]
    /\ kind' = [kind EXCEPT ![r] = "Wait"]
    /\ UNCHANGED << chanVars, mdone, mvalue, closedBy, ctx, rcv, ret, yl, atCall, cellVars, cbVars, itemVars, seqVars >>

\* Memoizer.TryWait(): m.addRunning(), then the select with a default case.
MemoTryWaitCall(r) ==
    /\ MayCall(r)
    /\ running' = running + 1
    /\ pc' = [pc EXCEPT ![r] = "trySelect"]
    /\ kind' = [kind EXCEPT ![r] = "TryWait"]
    /\ atCall' = [atCall EXCEPT ![r] = mdone > 0]
    /\ UNCHANGED << chanVars, mdone, mvalue, closedBy, ctx, rcv, ret, yl, cellVars, cbVars, itemVars, seqVars >>

\* case r, ok := <-m.channel(): a buffered Result (ok) or a closed channel (!ok).
\* next is where processResult starts for each outcome.
RecvFromSource(r) ==
    /\ ChanReady
    /\ IF Len(ch.buf) > 0
         THEN /\ rcv' = [rcv EXCEPT ![r] = Head(ch.buf)]
              /\ ch' = [ch EXCEPT !.buf = Tail(@)]
              /\ pc' = [pc EXCEPT ![r] = "okStore"]
         ELSE /\ rcv' = [rcv EXCEPT ![r] = NilResult]
              /\ UNCHANGED ch
              /\ pc' = [pc EXCEPT ![r] = "dec"]

\* The select of Wait takes the channel case.
MemoWaitRecv(r) ==
    /\ pc[r] = "select"
    /\ RecvFromSource(r)
    /\ UNCHANGED << ppc, pcall, sent, memoVars, kind, ctx, ret, yl, atCall, cellVars, cbVars, itemVars, seqVars >>

\* The select of Wait takes case <-ctx.Done().
MemoWaitCtx(r) ==
    /\ pc[r] = "select"
    /\ CtxFired(ctx[r])
    /\ pc' = [pc EXCEPT ![r] = "ctxRelease"]
    /\ UNCHANGED << chanVars, memoVars, kind, ctx, rcv, ret, yl, atCall, cellVars, cbVars, itemVars, seqVars >>

\* A cancelled Wait that returns without releaseRunning.
MemoWaitCtxRelease_NoRelease(r) ==
    /\ pc[r] = "ctxRelease"
    /\ running' = running
    /\ ret' = [ret EXCEPT ![r] = << 0, Wrap("memoizer wait", CtxErr(ctx[r])) >>]
    /\ pc' = [pc EXCEPT ![r] = "returned"]
    /\ UNCHANGED << chanVars, mdone, mvalue, closedBy, kind, ctx, rcv, yl, atCall, cellVars, cbVars, itemVars, seqVars >>

\* m.releaseRunning(); return *new(R), fmt.Errorf("memoizer wait: %w", ctx.Err())
MemoWaitCtxRelease(r) ==
    /\ pc[r] = "ctxRelease"
    /\ running' = running - 1
    /\ ret' = [ret EXCEPT ![r] = << 0, Wrap("memoizer wait", CtxErr(ctx[r])) >>]
    /\ pc' = [pc EXCEPT ![r] = "returned"]
    /\ UNCHANGED << chanVars, mdone, mvalue, closedBy, kind, ctx, rcv, yl, atCall, cellVars, cbVars, itemVars, seqVars >>

\* The select of TryWait takes the channel case.
MemoTryWaitRecv(r) ==
    /\ pc[r] = "trySelect"
    /\ RecvFromSource(r)
    /\ UNCHANGED << ppc, pcall, sent, memoVars, kind, ctx, ret, yl, atCall, cellVars, cbVars, itemVars, seqVars >>

\* The select of TryWait takes the default case: the channel is not ready.
MemoTryWaitDefault(r) ==
    /\ pc[r] = "trySelect"
    /\ ~ChanReady
    /\ pc' = [pc EXCEPT ![r] = "tryRelease"]
    /\ UNCHANGED << chanVars, memoVars, kind, ctx, rcv, ret, yl, atCall, cellVars, cbVars, itemVars, seqVars >>

\* m.releaseRunning(); return *new(R), ErrNotReady
MemoTryWaitRelease(r) ==
    /\ pc[r] = "tryRelease"
    /\ running' = running - 1
    /\ ret' = [ret EXCEPT ![r] = << 0, ErrNotReady >>]
    /\ pc' = [pc EXCEPT ![r] = "returned"]
    /\ UNCHANGED << chanVars, mdone, mvalue, closedBy, kind, ctx, rcv, yl, atCall, cellVars, cbVars, itemVars, seqVars >>

(***************************************************************************)
(* The yield callbacks of the combinators and the end of a YieldAll call.  *)
(***************************************************************************)
YieldModes == {"yield", "WaitAll", "WaitAllValues", "WaitFirst"}

\* WaitAll's yield stopping at an error.
YieldAnswers_StopOnError(mode, v) ==
    IF mode = "WaitFirst" THEN {FALSE}
    ELSE IF mode \in {"WaitAll", "WaitAllValues"} THEN {V(v)[2] = Nil}
    ELSE BOOLEAN

\* WaitAllValues' yield going on after an error.
YieldAnswers_GoOn(mode, v) ==
    IF mode \in {"WaitAll", "WaitAllValues"} THEN {TRUE}
    ELSE IF mode = "WaitFirst" THEN {FALSE}
    ELSE BOOLEAN

\* WaitFirst's yield asking for more.
YieldAnswers_FirstGoesOn(mode, v) ==
    IF mode \in {"WaitAll", "WaitFirst"} THEN {TRUE}
    ELSE IF mode = "WaitAllValues" THEN {V(v)[2] = Nil}
    ELSE BOOLEAN

\* What yield(i, r) can return: WaitAll's true, WaitFirst's false, WaitAllValues'
\* false on the first error; a caller's own yield function may return either.
YieldAnswers(mode, v) ==
    IF mode = "WaitAll" THEN {TRUE}
    ELSE IF mode = "WaitFirst" THEN {FALSE}
    ELSE IF mode = "WaitAllValues" THEN {V(v)[2] = Nil}
    ELSE BOOLEAN

\* release(futures, released) and the return that follows it: when nothing
\* is left to release the call returns err at once.
YieldRelease(r, y, err) ==
    LET todo == (1 .. y.k) \ y.released
    IN  IF todo = {}
          THEN /\ pc' = [pc EXCEPT ![r] = "returned"]
               /\ ret' = [ret EXCEPT ![r] = << 0, err >>]
               /\ yl' = [yl EXCEPT ![r] = y]
          ELSE /\ pc' = [pc EXCEPT ![r] = "yRelease"]
               /\ ret' = ret
               /\ yl' = [yl EXCEPT ![r] = [y EXCEPT !.todo = todo, !.err = err]]

\* A YieldAll that goes on with its loop after yield returned false.
ReturnResult_GoesOn(r, v) ==
    IF kind[r] = "YieldAll"
      THEN LET y == [yl[r] EXCEPT !.released = @ \cup {yl[r].chosen},
                                  !.deliv = Append(@, << yl[r].chosen, v >>),
                                  !.i = @ + 1]
           IN  \E continue \in YieldAnswers(y.mode, v) :
                 /\ yl' = [yl EXCEPT ![r] = [y EXCEPT !.stop = IF continue THEN @ ELSE "yield"]]
                 /\ IF y.i = y.k
                      THEN /\ pc' = [pc EXCEPT ![r] = "returned"]
                           /\ ret' = [ret EXCEPT ![r] = << 0, Nil >>]
                      ELSE /\ pc' = [pc EXCEPT ![r] = "ySelect"]
                           /\ ret' = ret
      ELSE /\ pc' = [pc EXCEPT ![r] = "returned"]
           /\ ret' = [ret EXCEPT ![r] = V(v)]
           /\ yl' = yl

\* processResult returns v to its caller: Wait and TryWait return v.V();
\* YieldAll marks the chosen index released, calls yield and goes on or stops.
ReturnResult(r, v) ==
    IF kind[r] = "YieldAll"
      THEN LET y == [yl[r] EXCEPT !.released = @ \cup {yl[r].chosen},
                                  !.deliv = Append(@, << yl[r].chosen, v >>),
                                  !.i = @ + 1]
           IN  \E continue \in YieldAnswers(y.mode, v) :
                 IF ~continue
                   THEN YieldRelease(r, [y EXCEPT !.stop = "yield"], Nil)
                   ELSE /\ yl' = [yl EXCEPT ![r] = y]
                        /\ IF y.i = y.k
                             THEN /\ pc' = [pc EXCEPT ![r] = "returned"]
                                  /\ ret' = [ret EXCEPT ![r] = << 0, Nil >>]
                             ELSE /\ pc' = [pc EXCEPT ![r] = "ySelect"]
                                  /\ ret' = ret
      ELSE /\ pc' = [pc EXCEPT ![r] = "returned"]
           /\ ret' = [ret EXCEPT ![r] = V(v)]
           /\ yl' = yl

(***************************************************************************)
(* Memoizer.processResult, one action per shared-memory operation.         *)
(***************************************************************************)

\* close(m.done); a close of a closed channel panics.  mdone counts the
\* executions of close(m.done), closedBy lists who executed them.
CloseDone(r, next) ==
    /\ mdone' = mdone + 1
    /\ closedBy' = Append(closedBy, r)
    /\ pc' = [pc EXCEPT ![r] = IF mdone > 0 THEN "panicked" ELSE next]

\* if ok { m.value = r
ProcessOkStore(r) ==
    /\ pc[r] = "okStore"
    /\ mvalue' = rcv[r]
    /\ pc' = [pc EXCEPT ![r] = "okClose"]
    /\ UNCHANGED << chanVars, running, mdone, closedBy, kind, ctx, rcv, ret, yl, atCall, cellVars, cbVars, itemVars, seqVars >>

\* close(m.done)
ProcessOkClose(r) ==
    /\ pc[r] = "okClose"
    /\ CloseDone(r, "okRelease")
    /\ UNCHANGED << chanVars, running, mvalue, kind, ctx, rcv, ret, yl, atCall, cellVars, cbVars, itemVars, seqVars >>

\* A reader that received the value and returns it without releaseRunning.
ProcessOkRelease_NoRelease(r) ==
    /\ pc[r] = "okRelease"
    /\ running' = running
    /\ ReturnResult(r, rcv[r])
    /\ UNCHANGED << chanVars, mdone, mvalue, closedBy, kind, ctx, rcv, atCall, cellVars, cbVars, itemVars, seqVars >>

\* m.releaseRunning(); return r }
ProcessOkRelease(r) ==
    /\ pc[r] = "okRelease"
    /\ running' = running - 1
    /\ ReturnResult(r, rcv[r])
    /\ UNCHANGED << chanVars, mdone, mvalue, closedBy, kind, ctx, rcv, atCall, cellVars, cbVars, itemVars, seqVars >>

\* thereAreOthers, first operand: m.running.Add(-1) != 0
ThereAreOthersAdd(r) ==
    /\ pc[r] = "dec"
    /\ running' = running - 1
    /\ pc' = [pc EXCEPT ![r] = IF running - 1 # 0 THEN "waitDone" ELSE "cas"]
    /\ UNCHANGED << chanVars, mdone, mvalue, closedBy, kind, ctx, rcv, ret, yl, atCall, cellVars, cbVars, itemVars, seqVars >>

\* A reader that takes the lead whether or not its swap succeeds.
ThereAreOthersSwap_AlwaysLeads(r) ==
    /\ pc[r] = "cas"
    /\ running' = IF running = 0 THEN 1 ELSE running
    /\ pc' = [pc EXCEPT ![r] = "lastSelect"]
    /\ swap' = [swap EXCEPT ![r] = IF running = 0 THEN "won" ELSE "lost"]
    /\ UNCHANGED << chanVars, mdone, mvalue, closedBy, kind, ctx, rcv, ret, yl, atCall, cellVars, cbVars, itemVars,
                    idone, iv, iready, yanswers >>

\* thereAreOthers, second operand: !m.running.CompareAndSwap(0, 1)
ThereAreOthersSwap(r) ==
    /\ pc[r] = "cas"
    /\ IF running = 0
         THEN /\ running' = 1
              /\ pc' = [pc EXCEPT ![r] = "lastSelect"]
              /\ swap' = [swap EXCEPT ![r] = "won"]
         ELSE /\ running' = running
              /\ pc' = [pc EXCEPT ![r] = "waitDone"]
              /\ swap' = [swap EXCEPT ![r] = "lost"]
    /\ UNCHANGED << chanVars, mdone, mvalue, closedBy, kind, ctx, rcv, ret, yl, atCall, cellVars, cbVars, itemVars,
                    idone, iv, iready, yanswers >>

\* A reader that returns m.value without waiting for the done signal.
ProcessWaitDone_NoWait(r) ==
    /\ pc[r] = "waitDone"
    /\ ReturnResult(r, mvalue)
    /\ swap' = [swap EXCEPT ![r] = "none"]
    /\ UNCHANGED << chanVars, memoVars, kind, ctx, rcv, atCall, cellVars, cbVars, itemVars,
                    idone, iv, iready, yanswers >>

\* if m.thereAreOthers() { <-m.done; return m.value }
ProcessWaitDone(r) ==
    /\ pc[r] = "waitDone"
    /\ mdone > 0
    /\ ReturnResult(r, mvalue)
    /\ swap' = [swap EXCEPT ![r] = "none"]
    /\ UNCHANGED << chanVars, memoVars, kind, ctx, rcv, atCall, cellVars, cbVars, itemVars,
                    idone, iv, iready, yanswers >>

\* A last goroutine that resolves without looking at the done signal first.
ProcessLastSelect_NoCheck(r) ==
    /\ pc[r] = "lastSelect"
    /\ pc' = [pc EXCEPT ![r] = "lastStore"]
    /\ UNCHANGED << chanVars, memoVars, kind, ctx, rcv, ret, yl, atCall, cellVars, cbVars, itemVars, seqVars >>

\* select { case <-m.done: ... default: ... } of the last goroutine
ProcessLastSelect(r) ==
    /\ pc[r] = "lastSelect"
    /\ pc' = [pc EXCEPT ![r] = IF mdone > 0 THEN "lastRelease" ELSE "lastStore"]
    /\ UNCHANGED << chanVars, memoVars, kind, ctx, rcv, ret, yl, atCall, cellVars, cbVars, itemVars, seqVars >>

\* default: m.value = errorResult[R]{ErrNoResult}
ProcessLastStore(r) ==
    /\ pc[r] = "lastStore"
    /\ mvalue' = errorResult(ErrNoResult)
    /\ pc' = [pc EXCEPT ![r] = "lastClose"]
    /\ UNCHANGED << chanVars, running, mdone, closedBy, kind, ctx, rcv, ret, yl, atCall, cellVars, cbVars, itemVars, seqVars >>

\* close(m.done)
ProcessLastClose(r) ==
    /\ pc[r] = "lastClose"
    /\ CloseDone(r, "lastRelease")
    /\ UNCHANGED << chanVars, running, mvalue, kind, ctx, rcv, ret, yl, atCall, cellVars, cbVars, itemVars, seqVars >>

\* A last goroutine that returns without calling releaseRunning.
ProcessLastRelease_NoRelease(r) ==
    /\ pc[r] = "lastRelease"
    /\ running' = running
    /\ ReturnResult(r, mvalue)
    /\ swap' = [swap EXCEPT ![r] = "none"]
    /\ UNCHANGED << chanVars, mdone, mvalue, closedBy, kind, ctx, rcv, atCall, cellVars, cbVars, itemVars,
                    idone, iv, iready, yanswers >>

\* m.releaseRunning(); return m.value
ProcessLastRelease(r) ==
    /\ pc[r] = "lastRelease"
    /\ running' = running - 1
    /\ ReturnResult(r, mvalue)
    /\ swap' = [swap EXCEPT ![r] = "none"]
    /\ UNCHANGED << chanVars, mdone, mvalue, closedBy, kind, ctx, rcv, atCall, cellVars, cbVars, itemVars,
                    idone, iv, iready, yanswers >>

(***************************************************************************)
(* YieldAll over k copies of the Memoizer.                                 *)
(***************************************************************************)

\* YieldAll(ctx, yield, futures...) is called with len(futures) = k.
YieldAllCall(r, k, mode) ==
    /\ pc[r] = "idle"
    /\ Registered + k <= NumReaders
    /\ kind' = [kind EXCEPT ![r] = "YieldAll"]
    /\ yl' = [yl EXCEPT ![r] = [NoYield EXCEPT !.k = k, !.mode = mode, !.valid = 1 .. k]]
    /\ IF k = 0
         THEN /\ pc' = [pc EXCEPT ![r] = "returned"]
              /\ ret' = [ret EXCEPT ![r] = << 0, Nil >>]
         ELSE /\ pc' = [pc EXCEPT ![r] = "yAdd"]
              /\ ret' = ret
    /\ UNCHANGED << chanVars, memoVars, ctx, rcv, atCall, cellVars, cbVars, itemVars, seqVars >>

\* for i, future := range futures { future.addRunning(); ... }
YieldAllAdd(r) ==
    /\ pc[r] = "yAdd"
    /\ running' = running + 1
    /\ yl' = [yl EXCEPT ![r].added = @ + 1]
    /\ pc' = [pc EXCEPT ![r] = IF yl[r].added + 1 = yl[r].k THEN "ySelect" ELSE "yAdd"]
    /\ UNCHANGED << chanVars, mdone, mvalue, closedBy, kind, ctx, rcv, ret, atCall, cellVars, cbVars, itemVars, seqVars >>

\* reflect.Select chooses a future whose channel is ready; its case is disabled
\* and processResult runs on what was received.
YieldAllRecv(r) ==
    /\ pc[r] = "ySelect"
    /\ \E idx \in yl[r].valid :
         yl' = [yl EXCEPT ![r].chosen = idx, ![r].valid = @ \ {idx}]
    /\ RecvFromSource(r)
    /\ UNCHANGED << ppc, pcall, sent, memoVars, kind, ctx, ret, atCall, cellVars, cbVars, itemVars, seqVars >>

\* reflect.Select chooses the context's case: release what was not observed and
\* return fmt.Errorf("async wait canceled: %w", ctx.Err()).
YieldAllCtx(r) ==
    /\ pc[r] = "ySelect"
    /\ CtxFired(ctx[r])
    /\ YieldRelease(r, [yl[r] EXCEPT !.stop = "ctx"], Wrap("async wait canceled", CtxErr(ctx[r])))
    /\ UNCHANGED << chanVars, memoVars, kind, ctx, rcv, atCall, cellVars, cbVars, itemVars, seqVars >>

Min(S) == CHOOSE x \in S : \A y \in S : x <= y

\* A release that skips futures[i].releaseRunning().
YieldAllRelease_NoRelease(r) ==
    /\ pc[r] = "yRelease"
    /\ running' = running
    /\ LET rest == yl[r].todo \ {Min(yl[r].todo)}
       IN  /\ yl' = [yl EXCEPT ![r].todo = rest]
           /\ IF rest = {}
                THEN /\ pc' = [pc EXCEPT ![r] = "returned"]
                     /\ ret' = [ret EXCEPT ![r] = << 0, yl[r].err >>]
                ELSE /\ UNCHANGED << pc, ret >>
    /\ UNCHANGED << chanVars, mdone, mvalue, closedBy, kind, ctx, rcv, atCall, cellVars, cbVars, itemVars, seqVars >>

\* release: futures[i].releaseRunning() for the next index not yet released.
YieldAllRelease(r) ==
    /\ pc[r] = "yRelease"
    /\ running' = running - 1
    /\ LET rest == yl[r].todo \ {Min(yl[r].todo)}
       IN  /\ yl' = [yl EXCEPT ![r].todo = rest]
           /\ IF rest = {}
                THEN /\ pc' = [pc EXCEPT ![r] = "returned"]
                     /\ ret' = [ret EXCEPT ![r] = << 0, yl[r].err >>]
                ELSE /\ UNCHANGED << pc, ret >>
    /\ UNCHANGED << chanVars, mdone, mvalue, closedBy, kind, ctx, rcv, atCall, cellVars, cbVars, itemVars, seqVars >>

(***************************************************************************)
(* The Memoizer with its readers and a producer that resolves the source   *)
(* at most once: with a value, with an error, or by closing it empty.      *)
(***************************************************************************)
MemoProducer ==
    \/ Fulfill(1)
    \/ ChanReject(1)
    \/ PromiseSend(1)
    \/ PromiseClose(1)
    \/ CloseEmpty

\* The steps of a reader that is inside a call.
MemoStep(r) ==
    \/ MemoWaitRecv(r)
    \/ MemoWaitCtx(r)
    \/ MemoWaitCtxRelease(r)
    \/ MemoTryWaitRecv(r)
    \/ MemoTryWaitDefault(r)
    \/ MemoTryWaitRelease(r)
    \/ ProcessOkStore(r)
    \/ ProcessOkClose(r)
    \/ ProcessOkRelease(r)
    \/ ThereAreOthersAdd(r)
    \/ ThereAreOthersSwap(r)
    \/ ProcessWaitDone(r)
    \/ ProcessLastSelect(r)
    \/ ProcessLastStore(r)
    \/ ProcessLastClose(r)
    \/ ProcessLastRelease(r)
    \/ YieldAllAdd(r)
    \/ YieldAllRecv(r)
    \/ YieldAllCtx(r)
    \/ YieldAllRelease(r)

MemoCall(r) ==
    \/ MemoWaitCall(r)
    \/ MemoTryWaitCall(r)

MemoNext ==
    \/ MemoProducer
    \/ \E r \in Readers : MemoCall(r)
    \/ \E k \in 0 .. NumReaders : YieldAllCall(FanIn, k, "yield")
    \/ \E r \in Procs : MemoStep(r)
    \/ \E r \in Procs : Cancel(r, "canceled")

SpecMemo == Init /\ [][MemoNext]_vars

\* The Go scheduler runs every goroutine that can take a step; nobody is
\* obliged to make a call or to cancel a context.
FairMemo ==
    /\ SpecMemo
    /\ \A r \in Procs : WF_vars(MemoStep(r))
    /\ WF_vars(PromiseSend(1) \/ PromiseClose(1))

(***************************************************************************)
(* The struct-based Promise and Future over one value cell.                *)
(***************************************************************************)

\* Promise.Resolve, Promise.Reject or Promise.Do is called: each builds a Result
\* and calls p.complete with it.  A later call is made once the call before it
\* has closed done or has failed.
CompleteCall(p, method, res) ==
    /\ cpc[p] = "idle"
    /\ \A q \in Resolvers : q < p => cpc[q] \notin {"idle", "cStore", "cClose"}
    /\ cpc' = [cpc EXCEPT ![p] = "cStore"]
    /\ ccall' = [ccall EXCEPT ![p] = [NoCall EXCEPT !.method = method, !.res = res,
                                                      !.late = cdone > 0]]
    /\ UNCHANGED << chanVars, memoVars, readerVars, cdone, cv, cqueue, cfirst, cbVars, itemVars, seqVars >>

Resolve(p) ==
    CompleteCall(p, "Resolve", OfValue(p))

Reject(p) ==
    CompleteCall(p, "Reject", OfError(ErrTest(p)))

Do(p) ==
    \E out \in FnOutcomes(p) : CompleteCall(p, "Do", Of(out[1], out[2]))

\* complete with the store left out: done is closed over the old r.v.
CompleteStore_NoStore(p) ==
    /\ cpc[p] = "cStore"
    /\ cpc' = [cpc EXCEPT ![p] = "cClose"]
    /\ UNCHANGED << chanVars, memoVars, readerVars, cdone, cv, cqueue, ccall, cfirst, cbVars, itemVars, seqVars >>

\* complete: r.v = value
CompleteStore(p) ==
    /\ cpc[p] = "cStore"
    /\ cv' = ccall[p].res
    /\ cpc' = [cpc EXCEPT ![p] = "cClose"]
    /\ UNCHANGED << chanVars, memoVars, readerVars, cdone, cqueue, ccall, cfirst, cbVars, itemVars, seqVars >>

\* complete with the panic of close(r.done) swallowed: the call returns.
CompleteClose_Recovered(p) ==
    /\ cpc[p] = "cClose"
    /\ cdone' = cdone + 1
    /\ cfirst' = IF cdone = 0 THEN cv ELSE cfirst
    /\ cpc' = [cpc EXCEPT ![p] = IF cdone > 0 THEN "returned" ELSE "cRecvQueue"]
    /\ UNCHANGED << chanVars, memoVars, readerVars, cv, cqueue, ccall, cbVars, itemVars, seqVars >>

\* complete: close(r.done); a close of a closed channel panics.
CompleteClose(p) ==
    /\ cpc[p] = "cClose"
    /\ cdone' = cdone + 1
    /\ cfirst' = IF cdone = 0 THEN cv ELSE cfirst
    /\ cpc' = [cpc EXCEPT ![p] = IF cdone > 0 THEN "panicked" ELSE "cRecvQueue"]
    /\ UNCHANGED << chanVars, memoVars, readerVars, cv, cqueue, ccall, cbVars, itemVars, seqVars >>

\* complete: queue := <-r.queue
CompleteRecvQueue(p) ==
    /\ cpc[p] = "cRecvQueue"
    /\ Len(cqueue.buf) > 0 \/ cqueue.closed
    /\ IF Len(cqueue.buf) > 0
         THEN /\ ccall' = [ccall EXCEPT ![p].queue = Head(cqueue.buf)]
              /\ cqueue' = [cqueue EXCEPT !.buf = Tail(@)]
         ELSE /\ ccall' = [ccall EXCEPT ![p].queue = << >>]
              /\ UNCHANGED cqueue
    /\ cpc' = [cpc EXCEPT ![p] = "cCloseQueue"]
    /\ UNCHANGED << chanVars, memoVars, readerVars, cdone, cv, cfirst, cbVars, itemVars, seqVars >>

\* complete going to its loop with r.queue left open.
CompleteCloseQueue_NoClose(p) ==
    /\ cpc[p] = "cCloseQueue"
    /\ cpc' = [cpc EXCEPT ![p] = IF ccall[p].queue = << >> THEN "returned" ELSE "cDrain"]
    /\ UNCHANGED << chanVars, memoVars, readerVars, cdone, cv, cqueue, ccall, cfirst, cbVars, itemVars, seqVars >>

\* complete: close(r.queue), then the loop over the callbacks received; with
\* none of them the call returns.
CompleteCloseQueue(p) ==
    /\ cpc[p] = "cCloseQueue"
    /\ cqueue' = [cqueue EXCEPT !.closed = TRUE]
    /\ cpc' = [cpc EXCEPT ![p] = IF cqueue.closed THEN "panicked"
                                  ELSE IF ccall[p].queue = << >> THEN "returned"
                                  ELSE "cDrain"]
    /\ UNCHANGED << chanVars, memoVars, readerVars, cdone, cv, ccall, cfirst, cbVars, itemVars, seqVars >>

\* Future.Await(ctx) is called with a context that is live or has fired.
AwaitCall(r, c) ==
    /\ MayCall(r)
    /\ pc' = [pc EXCEPT ![r] = "awaiting"]
    /\ kind' = [kind EXCEPT ![r] = "Await"]
    /\ ctx' = [ctx EXCEPT ![r] = c]
    /\ atCall' = [atCall EXCEPT ![r] = cdone > 0]
    /\ UNCHANGED << chanVars, memoVars, rcv, ret, yl, cellVars, cbVars, itemVars, seqVars >>

\* select: case <-f.done: return f.v.V()
AwaitDone(r) ==
    /\ pc[r] = "awaiting"
    /\ cdone > 0
    /\ ret' = [ret EXCEPT ![r] = ResultV(cv)]
    /\ pc' = [pc EXCEPT ![r] = "returned"]
    /\ UNCHANGED << chanVars, memoVars, kind, ctx, rcv, yl, atCall, cellVars, cbVars, itemVars, seqVars >>

\* Await wrapping ctx.Err() instead of context.Cause(ctx).
AwaitCtx_CtxErr(r) ==
    /\ pc[r] = "awaiting"
    /\ CtxFired(ctx[r])
    /\ ret' = [ret EXCEPT ![r] = << 0, Wrap("future await", CtxErr(ctx[r])) >>]
    /\ pc' = [pc EXCEPT ![r] = "returned"]
    /\ UNCHANGED << chanVars, memoVars, kind, ctx, rcv, yl, atCall, cellVars, cbVars, itemVars, seqVars >>

\* select: case <-ctx.Done(): return *new(R), fmt.Errorf("future await: %w", context.Cause(ctx))
AwaitCtx(r) ==
    /\ pc[r] = "awaiting"
    /\ CtxFired(ctx[r])
    /\ ret' = [ret EXCEPT ![r] = << 0, Wrap("future await", CtxCause(ctx[r])) >>]
    /\ pc' = [pc EXCEPT ![r] = "returned"]
    /\ UNCHANGED << chanVars, memoVars, kind, ctx, rcv, yl, atCall, cellVars, cbVars, itemVars, seqVars >>

\* Try reading f.v without looking at f.done.
Try_NoSelect(r) ==
    /\ MayCall(r)
    /\ ret' = [ret EXCEPT ![r] = ResultV(cv)]
    /\ pc' = [pc EXCEPT ![r] = "returned"]
    /\ kind' = [kind EXCEPT ![r] = "Try"]
    /\ UNCHANGED << chanVars, memoVars, ctx, rcv, yl, atCall, cellVars, cbVars, itemVars, seqVars >>

\* Future.Try(): select { case <-f.done: return f.v.V(); default: return *new(R), ErrNotReady }
Try(r) ==
    /\ MayCall(r)
    /\ ret' = [ret EXCEPT ![r] = IF cdone > 0 THEN ResultV(cv) ELSE << 0, ErrNotReady >>]
    /\ pc' = [pc EXCEPT ![r] = "returned"]
    /\ kind' = [kind EXCEPT ![r] = "Try"]
    /\ UNCHANGED << chanVars, memoVars, ctx, rcv, yl, atCall, cellVars, cbVars, itemVars, seqVars >>

\* The steps of a resolving call that is under way.
CompleteStep(p) ==
    \/ CompleteStore(p)
    \/ CompleteClose(p)
    \/ CompleteRecvQueue(p)
    \/ CompleteCloseQueue(p)

CellResolve(p) ==
    \/ Resolve(p)
    \/ Reject(p)
    \/ Do(p)

AwaitStep(r) ==
    \/ AwaitDone(r)
    \/ AwaitCtx(r)

CellNext ==
    \/ \E p \in Resolvers : CellResolve(p)
    \/ \E p \in Resolvers : CompleteStep(p)
    \/ \E r \in Readers, c \in CtxStates : AwaitCall(r, c)
    \/ \E r \in Readers : AwaitStep(r)
    \/ \E r \in Readers : Try(r)
    \/ \E r \in Readers, c \in CtxStates : Cancel(r, c)

SpecCell == Init /\ [][CellNext]_vars

\* The Go scheduler runs every goroutine that can take a step; nobody is
\* obliged to resolve the Promise, to call the Future or to cancel a context.
FairCell ==
    /\ SpecCell
    /\ \A p \in Resolvers : WF_vars(CompleteStep(p))
    /\ \A r \in Readers : WF_vars(AwaitStep(r))

\* A program that keeps to the contract: the Promise is resolved by one call.
AwaitNext ==
    \/ CellResolve(1)
    \/ CompleteStep(1)
    \/ \E r \in Readers, c \in CtxStates : AwaitCall(r, c)
    \/ \E r \in Readers : AwaitStep(r)
    \/ \E r \in Readers : Try(r)
    \/ \E r \in Readers, c \in CtxStates : Cancel(r, c)

SpecAwait == Init /\ [][AwaitNext]_vars

FairAwait ==
    /\ SpecAwait
    /\ WF_vars(CompleteStep(1))
    /\ \A r \in Readers : WF_vars(AwaitStep(r))

(***************************************************************************)
(* Callbacks: value.onComplete, the drain loop of value.complete, and the  *)
(* cells that Transform and AndThen derive from a Future.  A callback is   *)
(* named after the reader that registered it.                              *)
(***************************************************************************)

\* The functions handed to Transform and AndThen: itoa of the tests, which
\* passes an error on, and a function that answers an error with a value.
Fns == {"itoa", "orElse"}

\* fn(value, err)
Apply(fn, v, e) ==
    IF fn = "itoa"
      THEN IF e # Nil THEN << 0, e >>
           ELSE IF v < 0 THEN << 0, ErrTest(0) >>
           ELSE << v + 10, Nil >>
      ELSE IF e # Nil THEN << 0 - 1, Nil >>
           ELSE << v + 10, Nil >>

\* Future.OnComplete(fn), Transform(f, fn) or AndThen(f, fn) is called; the
\* latter two create a cell with New and register a callback that resolves it.
OnCompleteCall(r, k, fn) ==
    /\ MayCall(r)
    /\ kind' = [kind EXCEPT ![r] = k]
    /\ pc' = [pc EXCEPT ![r] = "ocRecv"]
    /\ atCall' = [atCall EXCEPT ![r] = cdone > 0]
    /\ dcell' = [dcell EXCEPT ![r].fn = fn]
    /\ UNCHANGED << chanVars, memoVars, ctx, rcv, ret, yl, cellVars, cbq, cbrun, regs, drained, itemVars, seqVars >>

OnComplete(r) ==
    OnCompleteCall(r, "OnComplete", "none")

Transform(r, fn) ==
    OnCompleteCall(r, "Transform", fn)

AndThen(r, fn) ==
    OnCompleteCall(r, "AndThen", fn)

\* f.OnComplete(func(Result) { f.OnComplete(g) }): a callback that registers
\* another callback g with the same cell.
Nested(r) ==
    OnCompleteCall(r, "Nested", "none")

\* Future.ToChannel(): ch := make(chan Result[R], 1); f.onComplete(fn) with
\* fn sending its argument into ch and closing it; return ch.
ToChannel(r) ==
    OnCompleteCall(r, "ToChannel", "none")

\* AndThen without the go statement.
Inline_NoGo(cb) == kind[cb] \in {"Transform", "AndThen", "Nested", "ToChannel"}

\* The callback of Transform runs ps.Do inline, a nested registration runs
\* onComplete inline and the callback of ToChannel sends and closes inline;
\* the callback of AndThen starts a goroutine for ps.Do; a plain callback
\* just takes the Result.
Inline(cb) == kind[cb] \in {"Transform", "Nested", "ToChannel"}

\* fn(value): the callback cb is invoked with res by the thread by.
Invoke(cb, res, by) ==
    /\ cbrun' = [cbrun EXCEPT ![cb] = [n |-> @.n + 1, res |-> res, by |-> by]]
    /\ dcell' = IF kind[cb] \in {"Transform", "AndThen"}
                  THEN [dcell EXCEPT ![cb].pc = "store", ![cb].arg = res]
                  ELSE IF kind[cb] = "Nested"
                  THEN [dcell EXCEPT ![cb].pc = "nested", ![cb].arg = res]
                  ELSE IF kind[cb] = "ToChannel"
                  THEN [dcell EXCEPT ![cb].pc = "tcSend", ![cb].arg = res]
                  ELSE dcell

\* onComplete: queue, ok := <-r.queue
OnCompleteRecv(r) ==
    /\ pc[r] = "ocRecv"
    /\ Len(cqueue.buf) > 0 \/ cqueue.closed
    /\ IF Len(cqueue.buf) > 0
         THEN /\ cbq' = [cbq EXCEPT ![r] = Head(cqueue.buf)]
              /\ cqueue' = [cqueue EXCEPT !.buf = Tail(@)]
              /\ pc' = [pc EXCEPT ![r] = "ocSend"]
         ELSE /\ pc' = [pc EXCEPT ![r] = "ocRun"]
              /\ UNCHANGED << cbq, cqueue >>
    /\ UNCHANGED << chanVars, memoVars, kind, ctx, rcv, ret, yl, atCall,
                    cdone, cv, cpc, ccall, cfirst, cbrun, regs, drained, dcell, itemVars, seqVars >>

\* onComplete sending the list back without fn.
OnCompleteSend_NoAppend(r) ==
    /\ pc[r] = "ocSend"
    /\ cqueue.closed \/ Len(cqueue.buf) < 1
    /\ IF cqueue.closed
         THEN /\ pc' = [pc EXCEPT ![r] = "panicked"]
              /\ UNCHANGED << cqueue, regs >>
         ELSE /\ cqueue' = [cqueue EXCEPT !.buf = << cbq[r] >>]
              /\ regs' = regs
              /\ pc' = [pc EXCEPT ![r] = "returned"]
    /\ UNCHANGED << chanVars, memoVars, kind, ctx, rcv, ret, yl, atCall,
                    cdone, cv, cpc, ccall, cfirst, cbq, cbrun, drained, dcell, itemVars, seqVars >>

\* onComplete putting fn in front of the list.
OnCompleteSend_Prepend(r) ==
    /\ pc[r] = "ocSend"
    /\ cqueue.closed \/ Len(cqueue.buf) < 1
    /\ IF cqueue.closed
         THEN /\ pc' = [pc EXCEPT ![r] = "panicked"]
              /\ UNCHANGED << cqueue, regs >>
         ELSE /\ cqueue' = [cqueue EXCEPT !.buf = << << r >> \o cbq[r] >>]
              /\ regs' = Append(regs, r)
              /\ pc' = [pc EXCEPT ![r] = "returned"]
    /\ UNCHANGED << chanVars, memoVars, kind, ctx, rcv, ret, yl, atCall,
                    cdone, cv, cpc, ccall, cfirst, cbq, cbrun, drained, dcell, itemVars, seqVars >>

\* onComplete: queue = append(queue, fn); r.queue <- queue
OnCompleteSend(r) ==
    /\ pc[r] = "ocSend"
    /\ cqueue.closed \/ Len(cqueue.buf) < 1
    /\ IF cqueue.closed
         THEN /\ pc' = [pc EXCEPT ![r] = "panicked"]
              /\ UNCHANGED << cqueue, regs >>
         ELSE /\ cqueue' = [cqueue EXCEPT !.buf = << Append(cbq[r], r) >>]
              /\ regs' = Append(regs, r)
              /\ pc' = [pc EXCEPT ![r] = "returned"]
    /\ UNCHANGED << chanVars, memoVars, kind, ctx, rcv, ret, yl, atCall,
                    cdone, cv, cpc, ccall, cfirst, cbq, cbrun, drained, dcell, itemVars, seqVars >>

\* onComplete: else { fn(r.v) }
OnCompleteRun(r) ==
    /\ pc[r] = "ocRun"
    /\ Invoke(r, cv, << "caller", r >>)
    /\ pc' = [pc EXCEPT ![r] = IF Inline(r) THEN "ocWait" ELSE "returned"]
    /\ UNCHANGED << chanVars, memoVars, kind, ctx, rcv, ret, yl, atCall,
                    cellVars, cbq, regs, drained, itemVars, seqVars >>

\* fn(r.v) of a Transform returns when ps.Do has returned.
OnCompleteWait(r) ==
    /\ pc[r] = "ocWait"
    /\ dcell[r].pc = "resolved"
    /\ pc' = [pc EXCEPT ![r] = "returned"]
    /\ UNCHANGED << chanVars, memoVars, kind, ctx, rcv, ret, yl, atCall, cellVars, cbVars, itemVars, seqVars >>

\* The queue of complete after the callback at its head has returned.
DrainNext(p) ==
    /\ ccall' = [ccall EXCEPT ![p].queue = Tail(@)]
    /\ cpc' = [cpc EXCEPT ![p] = IF Tail(ccall[p].queue) = << >> THEN "returned" ELSE "cDrain"]

\* complete: for _, fn := range queue { fn(value) }
Drain(p) ==
    /\ cpc[p] = "cDrain"
    /\ LET cb == Head(ccall[p].queue)
       IN  /\ Invoke(cb, ccall[p].res, << "resolver", p >>)
           /\ drained' = Append(drained, cb)
           /\ IF Inline(cb)
                THEN /\ cpc' = [cpc EXCEPT ![p] = "cDrainWait"]
                     /\ UNCHANGED ccall
                ELSE DrainNext(p)
    /\ UNCHANGED << chanVars, memoVars, readerVars, cdone, cv, cqueue, cfirst, cbq, regs, itemVars, seqVars >>

\* fn(value) of a Transform returns when ps.Do has returned.
DrainWait(p) ==
    /\ cpc[p] = "cDrainWait"
    /\ dcell[Head(ccall[p].queue)].pc = "resolved"
    /\ DrainNext(p)
    /\ UNCHANGED << chanVars, memoVars, readerVars, cdone, cv, cqueue, cfirst, cbVars, itemVars, seqVars >>

\* ps.Do(func() (S, error) { return fn(r.V()) }), first half: fn is evaluated
\* and complete stores result.Of of its outcome in the derived cell.
DerivedStore(cb) ==
    /\ dcell[cb].pc = "store"
    /\ LET in == ResultV(dcell[cb].arg)
           out == Apply(dcell[cb].fn, in[1], in[2])
       IN  dcell' = [dcell EXCEPT ![cb].v = Of(out[1], out[2]), ![cb].applied = TRUE,
                                  ![cb].pc = "close"]
    /\ UNCHANGED << chanVars, memoVars, readerVars, cellVars, cbq, cbrun, regs, drained, itemVars, seqVars >>

\* ps.Do, second half: complete closes done of the derived cell, which has no
\* callbacks, and returns.
DerivedClose(cb) ==
    /\ dcell[cb].pc = "close"
    /\ dcell' = [dcell EXCEPT ![cb].done = @ + 1,
                              ![cb].pc = IF dcell[cb].done > 0 THEN "panicked" ELSE "resolved"]
    /\ UNCHANGED << chanVars, memoVars, readerVars, cellVars, cbq, cbrun, regs, drained, itemVars, seqVars >>

\* onComplete(g) called by the callback cb, on the thread that runs cb:
\* queue, ok := <-r.queue; with the queue closed g(r.v) runs at once and the
\* call returns; with a list received g is appended, the list is sent back
\* and the call returns with g waiting in the queue.
NestedOnComplete(cb) ==
    /\ dcell[cb].pc = "nested"
    /\ Len(cqueue.buf) > 0 \/ cqueue.closed
    /\ IF Len(cqueue.buf) > 0
         THEN /\ cqueue' = [cqueue EXCEPT !.buf = << Append(Head(@), cb + NumReaders) >>]
              /\ dcell' = [dcell EXCEPT ![cb].pc = "resolved"]
         ELSE /\ dcell' = [dcell EXCEPT ![cb].applied = TRUE, ![cb].v = cv,
                                        ![cb].pc = "resolved"]
              /\ UNCHANGED cqueue
    /\ UNCHANGED << chanVars, memoVars, readerVars, cdone, cv, cpc, ccall, cfirst,
                    cbq, cbrun, regs, drained, itemVars, seqVars >>

\* The callback of ToChannel: ch <- r.  The channel of cb keeps its one slot
\* in dcell[cb].v and the number of its closes in dcell[cb].done; a send
\* waits while the slot is taken and panics on a closed channel.
ToChannelSend(cb) ==
    /\ dcell[cb].pc = "tcSend"
    /\ dcell[cb].done > 0 \/ dcell[cb].v = NilResult
    /\ dcell' = IF dcell[cb].done > 0
                  THEN [dcell EXCEPT ![cb].pc = "panicked"]
                  ELSE [dcell EXCEPT ![cb].v = dcell[cb].arg, ![cb].applied = TRUE,
                                     ![cb].pc = "tcClose"]
    /\ UNCHANGED << chanVars, memoVars, readerVars, cellVars, cbq, cbrun, regs, drained, itemVars, seqVars >>

\* A callback of ToChannel that returns without closing ch.
ToChannelClose_NoClose(cb) ==
    /\ dcell[cb].pc = "tcClose"
    /\ dcell' = [dcell EXCEPT ![cb].pc = "resolved"]
    /\ UNCHANGED << chanVars, memoVars, readerVars, cellVars, cbq, cbrun, regs, drained, itemVars, seqVars >>

\* The callback of ToChannel: close(ch), and the callback returns.
ToChannelClose(cb) ==
    /\ dcell[cb].pc = "tcClose"
    /\ dcell' = [dcell EXCEPT ![cb].done = @ + 1,
                              ![cb].pc = IF dcell[cb].done > 0 THEN "panicked" ELSE "resolved"]
    /\ UNCHANGED << chanVars, memoVars, readerVars, cellVars, cbq, cbrun, regs, drained, itemVars, seqVars >>

\* v, ok := <-ch by the caller of ToChannel, as often as it likes until it
\* finds the channel closed: what it received is appended to yl[r].deliv.
ToChannelRecv(r) ==
    /\ kind[r] = "ToChannel"
    /\ pc[r] = "returned"
    /\ dcell[r].v # NilResult \/ dcell[r].done > 0
    /\ IF dcell[r].v # NilResult
         THEN /\ yl' = [yl EXCEPT ![r].deliv = Append(@, << 1, dcell[r].v >>)]
              /\ dcell' = [dcell EXCEPT ![r].v = NilResult]
              /\ pc' = pc
         ELSE /\ yl' = [yl EXCEPT ![r].deliv = Append(@, << 0, NilResult >>)]
              /\ dcell' = dcell
              /\ pc' = [pc EXCEPT ![r] = "tcEof"]
    /\ UNCHANGED << chanVars, memoVars, kind, ctx, rcv, ret, atCall, cellVars, cbq, cbrun, regs, drained, itemVars, seqVars >>

OnCompleteStep(r) ==
    \/ OnCompleteRecv(r)
    \/ OnCompleteSend(r)
    \/ OnCompleteRun(r)
    \/ OnCompleteWait(r)

DrainStep(p) ==
    \/ Drain(p)
    \/ DrainWait(p)

DerivedStep(cb) ==
    \/ DerivedStore(cb)
    \/ DerivedClose(cb)

\* One resolving call, and readers that register callbacks or derive cells.
CallbackNext ==
    \/ Resolve(1)
    \/ Reject(1)
    \/ CompleteStep(1)
    \/ DrainStep(1)
    \/ \E r \in Readers : OnComplete(r)
    \/ \E r \in Readers, fn \in Fns : Transform(r, fn)
    \/ \E r \in Readers, fn \in Fns : AndThen(r, fn)
    \/ \E r \in Readers : OnCompleteStep(r)
    \/ \E cb \in Readers : DerivedStep(cb)

SpecCallback == Init /\ [][CallbackNext]_vars

\* The same program with readers that call Await and Try as well, from a
\* callback or beside it.
ReadNext ==
    \/ CallbackNext
    \/ \E r \in Readers, c \in CtxStates : AwaitCall(r, c)
    \/ \E r \in Readers : AwaitStep(r)
    \/ \E r \in Readers : Try(r)
    \/ \E r \in Readers, c \in CtxStates : Cancel(r, c)

SpecRead == Init /\ [][ReadNext]_vars

\* One resolving call, and readers that register a plain callback or one
\* that registers a further callback with the cell.
NestedNext ==
    \/ Resolve(1)
    \/ Reject(1)
    \/ CompleteStep(1)
    \/ DrainStep(1)
    \/ \E r \in Readers : OnComplete(r)
    \/ \E r \in Readers : Nested(r)
    \/ \E r \in Readers : OnCompleteStep(r)
    \/ \E cb \in Readers : NestedOnComplete(cb)

SpecNested == Init /\ [][NestedNext]_vars

\* The Go scheduler runs every goroutine that can take a step; nobody is
\* obliged to resolve the Promise or to register a callback.
FairNested ==
    /\ SpecNested
    /\ WF_vars(CompleteStep(1))
    /\ WF_vars(DrainStep(1))
    /\ \A r \in Readers : WF_vars(OnCompleteStep(r))
    /\ \A cb \in Readers : WF_vars(NestedOnComplete(cb))

\* One resolving call, and readers that register a plain callback or call
\* ToChannel and receive from the channel it returned, or do not.
ChannelNext ==
    \/ Resolve(1)
    \/ Reject(1)
    \/ CompleteStep(1)
    \/ DrainStep(1)
    \/ \E r \in Readers : OnComplete(r)
    \/ \E r \in Readers : ToChannel(r)
    \/ \E r \in Readers : OnCompleteStep(r)
    \/ \E cb \in Readers : ToChannelSend(cb)
    \/ \E cb \in Readers : ToChannelClose(cb)
    \/ \E r \in Readers : ToChannelRecv(r)

SpecChannel == Init /\ [][ChannelNext]_vars

\* The Go scheduler runs every goroutine that can take a step; nobody is
\* obliged to resolve the Promise, to call ToChannel or to receive.
FairChannel ==
    /\ SpecChannel
    /\ WF_vars(CompleteStep(1))
    /\ WF_vars(DrainStep(1))
    /\ \A r \in Readers : WF_vars(OnCompleteStep(r))
    /\ \A cb \in Readers : WF_vars(ToChannelSend(cb) \/ ToChannelClose(cb))

\* The same program with itoa as the only function.
ChainNext ==
    \/ Resolve(1)
    \/ Reject(1)
    \/ CompleteStep(1)
    \/ DrainStep(1)
    \/ \E r \in Readers : OnComplete(r)
    \/ \E r \in Readers : Transform(r, "itoa")
    \/ \E r \in Readers : AndThen(r, "itoa")
    \/ \E r \in Readers : OnCompleteStep(r)
    \/ \E cb \in Readers : DerivedStep(cb)

SpecChain == Init /\ [][ChainNext]_vars

\* The Go scheduler runs every goroutine that can take a step; nobody is
\* obliged to resolve the Promise or to register a callback.
FairChain ==
    /\ SpecChain
    /\ WF_vars(CompleteStep(1))
    /\ WF_vars(DrainStep(1))
    /\ \A r \in Readers : WF_vars(OnCompleteStep(r))
    /\ \A cb \in Readers : WF_vars(DerivedStep(cb))

(***************************************************************************)
(* The plain channel-based Future and a program that holds one Promise of  *)
(* each kind and resolves each of them up to twice.                        *)
(***************************************************************************)

\* Future.processResult(r, ok): r, or ErrNoResult for a closed channel.
FutureProcessResult(r, ok) == IF ok THEN r ELSE errorResult(ErrNoResult)

\* Future.TryWait(): select { case r, ok := <-f: ...; default: ErrNotReady }
FutureTryWait(r) ==
    /\ MayCall(r)
    /\ kind' = [kind EXCEPT ![r] = "FutureTryWait"]
    /\ pc' = [pc EXCEPT ![r] = "returned"]
    /\ IF Len(ch.buf) > 0
         THEN /\ ret' = [ret EXCEPT ![r] = V(FutureProcessResult(Head(ch.buf), TRUE))]
              /\ ch' = [ch EXCEPT !.buf = Tail(@)]
         ELSE /\ ret' = [ret EXCEPT ![r] =
                            IF ch.closed THEN V(FutureProcessResult(NilResult, FALSE))
                                         ELSE << 0, ErrNotReady >>]
              /\ UNCHANGED ch
    /\ atCall' = [atCall EXCEPT ![r] = sent # NilResult /\ ch.closed]
    /\ UNCHANGED << ppc, pcall, sent, memoVars, ctx, rcv, yl, cellVars, cbVars, itemVars, seqVars >>

\* Future.Wait(ctx) is called with a context that is live or has fired.
FutureWaitCall(r, c) ==
    /\ MayCall(r)
    /\ kind' = [kind EXCEPT ![r] = "FutureWait"]
    /\ ctx' = [ctx EXCEPT ![r] = c]
    /\ pc' = [pc EXCEPT ![r] = "fSelect"]
    /\ atCall' = [atCall EXCEPT ![r] = sent # NilResult /\ ch.closed]
    /\ UNCHANGED << chanVars, memoVars, rcv, ret, yl, cellVars, cbVars, itemVars, seqVars >>

\* Future.Wait: case r, ok := <-f: return f.processResult(r, ok).V()
FutureWaitRecv(r) ==
    /\ pc[r] = "fSelect"
    /\ ChanReady
    /\ pc' = [pc EXCEPT ![r] = "returned"]
    /\ IF Len(ch.buf) > 0
         THEN /\ ret' = [ret EXCEPT ![r] = V(FutureProcessResult(Head(ch.buf), TRUE))]
              /\ ch' = [ch EXCEPT !.buf = Tail(@)]
         ELSE /\ ret' = [ret EXCEPT ![r] = V(FutureProcessResult(NilResult, FALSE))]
              /\ UNCHANGED ch
    /\ UNCHANGED << ppc, pcall, sent, memoVars, kind, ctx, rcv, yl, atCall, cellVars, cbVars, itemVars, seqVars >>

\* Future.Wait: case <-ctx.Done(): return *new(R), fmt.Errorf("future wait: %w", ctx.Err())
FutureWaitCtx(r) ==
    /\ pc[r] = "fSelect"
    /\ CtxFired(ctx[r])
    /\ pc' = [pc EXCEPT ![r] = "returned"]
    /\ ret' = [ret EXCEPT ![r] = << 0, Wrap("future wait", CtxErr(ctx[r])) >>]
    /\ UNCHANGED << chanVars, memoVars, kind, ctx, rcv, yl, atCall, cellVars, cbVars, itemVars, seqVars >>

\* The plain Future with its readers and a producer that fulfils or rejects
\* the Promise at most once or closes it empty.
FutureNext ==
    \/ MemoProducer
    \/ \E r \in Readers : FutureTryWait(r)
    \/ \E r \in Readers, c \in CtxStates : FutureWaitCall(r, c)
    \/ \E r \in Readers : FutureWaitRecv(r)
    \/ \E r \in Readers : FutureWaitCtx(r)

SpecFuture == Init /\ [][FutureNext]_vars

PromiseStep(p) ==
    \/ PromiseSend(p)
    \/ PromiseClose(p)

PromiseResolve(p) ==
    \/ Fulfill(p)
    \/ ChanReject(p)
    \/ ChanDo(p)

PromiseNext ==
    \/ \E p \in Resolvers : CellResolve(p)
    \/ \E p \in Resolvers : CompleteStep(p)
    \/ \E p \in Resolvers : PromiseResolve(p)
    \/ \E p \in Resolvers : PromiseStep(p)
    \/ \E r \in Readers : FutureTryWait(r)

SpecPromise == Init /\ [][PromiseNext]_vars

(***************************************************************************)
(* The combinators WaitAll, WaitAllValues and WaitFirst over Futures that  *)
(* each have a channel and a Promise of their own.  The goroutine FanIn    *)
(* makes the call; futures[i] of the code is item i + 1.                   *)
(***************************************************************************)

\* Promise.Fulfill(value) or Promise.Reject(err) of an item: p <- result
ItemSend(i, res) ==
    /\ ipc[i] = "idle"
    /\ ich' = [ich EXCEPT ![i].buf = Append(@, res)]
    /\ isent' = [isent EXCEPT ![i] = res]
    /\ ipc' = [ipc EXCEPT ![i] = "close"]
    /\ UNCHANGED << chanVars, memoVars, readerVars, cellVars, cbVars, seqVars >>

ItemFulfill(i) ==
    ItemSend(i, valueResult(i))

ItemReject(i) ==
    ItemSend(i, errorResult(ErrTest(i)))

\* Promise.Fulfill / Promise.Reject of an item: close(p)
ItemClose(i) ==
    /\ ipc[i] = "close"
    /\ ich' = [ich EXCEPT ![i].closed = TRUE]
    /\ ipc' = [ipc EXCEPT ![i] = "returned"]
    /\ UNCHANGED << chanVars, memoVars, readerVars, cellVars, cbVars, isent, seqVars >>

\* close(promises[i]): the item is closed without a value.
ItemCloseEmpty(i) ==
    /\ ipc[i] = "idle"
    /\ ich' = [ich EXCEPT ![i].closed = TRUE]
    /\ ipc' = [ipc EXCEPT ![i] = "returned"]
    /\ UNCHANGED << chanVars, memoVars, readerVars, cellVars, cbVars, isent, seqVars >>

\* The Result yield received for index idx, nil if it received none.
YieldedTo(y, idx) ==
    IF \E n \in 1 .. Len(y.deliv) : y.deliv[n][1] = idx
      THEN (CHOOSE d \in { y.deliv[n] : n \in 1 .. Len(y.deliv) } : d[1] = idx)[2]
      ELSE NilResult

\* WaitAllValues' yieldErr: set by the yield that saw an error.
YieldErr(y) ==
    IF y.deliv # << >> /\ V(y.deliv[Len(y.deliv)][2])[2] # Nil
      THEN LET d == y.deliv[Len(y.deliv)]
           IN  Wrap("async WaitAllValues result " \o ToString(d[1] - 1), V(d[2])[2])
      ELSE Nil

\* A WaitAll that returns the results it has collected beside the error.
WaitReturn_Partial(y, err) ==
    IF y.mode = "WaitAll"
      THEN [results |-> [i \in 1 .. y.k |-> YieldedTo(y, i)], ve |-> << 0, err >>]
    ELSE IF y.mode = "WaitAllValues"
      THEN IF YieldErr(y) # Nil THEN [results |-> << >>, ve |-> << 0, YieldErr(y) >>]
           ELSE IF err # Nil THEN [results |-> << >>, ve |-> << 0, err >>]
           ELSE [results |-> [i \in 1 .. y.k |-> V(YieldedTo(y, i))[1]], ve |-> << 0, Nil >>]
    ELSE IF err # Nil THEN [results |-> << >>, ve |-> << 0, err >>]
         ELSE [results |-> << >>,
               ve |-> V(IF y.deliv = << >> THEN NilResult ELSE y.deliv[Len(y.deliv)][2])]

\* What the combinator returns after YieldAll returned err, as the slice and
\* the (value, error) pair of its results: WaitAll its results, WaitAllValues
\* yieldErr or its values, WaitFirst result.V().
WaitReturn(y, err) ==
    IF y.mode = "WaitAll"
      THEN IF err # Nil THEN [results |-> << >>, ve |-> << 0, err >>]
           ELSE [results |-> [i \in 1 .. y.k |-> YieldedTo(y, i)], ve |-> << 0, Nil >>]
    ELSE IF y.mode = "WaitAllValues"
      THEN IF YieldErr(y) # Nil THEN [results |-> << >>, ve |-> << 0, YieldErr(y) >>]
           ELSE IF err # Nil THEN [results |-> << >>, ve |-> << 0, err >>]
           ELSE [results |-> [i \in 1 .. y.k |-> V(YieldedTo(y, i))[1]], ve |-> << 0, Nil >>]
    ELSE IF err # Nil THEN [results |-> << >>, ve |-> << 0, err >>]
         ELSE [results |-> << >>,
               ve |-> V(IF y.deliv = << >> THEN NilResult ELSE y.deliv[Len(y.deliv)][2])]

\* YieldAll returns err to the combinator, which returns; result.V() on the
\* nil Result of a WaitFirst that was handed nothing panics.
WaitFinish(y, err) ==
    /\ yl' = [yl EXCEPT ![FanIn] = [y EXCEPT !.results = WaitReturn(y, err).results]]
    /\ ret' = [ret EXCEPT ![FanIn] = WaitReturn(y, err).ve]
    /\ pc' = [pc EXCEPT ![FanIn] =
                 IF y.mode = "WaitFirst" /\ err = Nil /\ y.deliv = << >>
                   THEN "panicked" ELSE "returned"]

\* WaitAll, WaitAllValues or WaitFirst is called with the first k items and a
\* context that is live or has fired; YieldAll sets up its select cases.
WaitCall(mode, k, c) ==
    /\ pc[FanIn] = "idle"
    /\ kind' = [kind EXCEPT ![FanIn] = mode]
    /\ ctx' = [ctx EXCEPT ![FanIn] = c]
    /\ LET y == [NoYield EXCEPT !.k = k, !.mode = mode, !.valid = 1 .. k]
       IN  IF k = 0
             THEN WaitFinish(y, Nil)
             ELSE /\ yl' = [yl EXCEPT ![FanIn] = y]
                  /\ pc' = [pc EXCEPT ![FanIn] = "wSelect"]
                  /\ ret' = ret
    /\ UNCHANGED << chanVars, memoVars, rcv, atCall, cellVars, cbVars, itemVars, seqVars >>

WaitAll(k, c) ==
    WaitCall("WaitAll", k, c)

WaitAllValues(k, c) ==
    WaitCall("WaitAllValues", k, c)

WaitFirst(k, c) ==
    WaitCall("WaitFirst", k, c)

\* A loop that leaves the chosen case enabled.
WaitSelectItem_KeepCase(idx) ==
    /\ pc[FanIn] = "wSelect"
    /\ idx \in yl[FanIn].valid
    /\ Len(ich[idx].buf) > 0 \/ ich[idx].closed
    /\ LET ok == Len(ich[idx].buf) > 0
           v == FutureProcessResult(IF ok THEN Head(ich[idx].buf) ELSE NilResult, ok)
           y == [yl[FanIn] EXCEPT !.chosen = idx,
                                  !.released = @ \cup {idx},
                                  !.deliv = Append(@, << idx, v >>), !.i = @ + 1]
       IN  /\ ich' = [ich EXCEPT ![idx].buf = IF ok THEN Tail(@) ELSE @]
           /\ \E continue \in YieldAnswers(y.mode, v) :
                IF continue /\ y.i < y.k
                  THEN /\ yl' = [yl EXCEPT ![FanIn] = y]
                       /\ UNCHANGED << pc, ret >>
                  ELSE WaitFinish(y, Nil)
    /\ UNCHANGED << chanVars, memoVars, kind, ctx, rcv, atCall, cellVars, cbVars, ipc, isent, seqVars >>

\* reflect.Select chooses an item whose channel is ready; its case is disabled,
\* processResult runs on what was received and yield is called with it.
WaitSelectItem(idx) ==
    /\ pc[FanIn] = "wSelect"
    /\ idx \in yl[FanIn].valid
    /\ Len(ich[idx].buf) > 0 \/ ich[idx].closed
    /\ LET ok == Len(ich[idx].buf) > 0
           v == FutureProcessResult(IF ok THEN Head(ich[idx].buf) ELSE NilResult, ok)
           y == [yl[FanIn] EXCEPT !.chosen = idx, !.valid = @ \ {idx},
                                  !.released = @ \cup {idx},
                                  !.deliv = Append(@, << idx, v >>), !.i = @ + 1]
       IN  /\ ich' = [ich EXCEPT ![idx].buf = IF ok THEN Tail(@) ELSE @]
           /\ \E continue \in YieldAnswers(y.mode, v) :
                IF continue /\ y.i < y.k
                  THEN /\ yl' = [yl EXCEPT ![FanIn] = y]
                       /\ UNCHANGED << pc, ret >>
                  ELSE WaitFinish(y, Nil)
    /\ UNCHANGED << chanVars, memoVars, kind, ctx, rcv, atCall, cellVars, cbVars, ipc, isent, seqVars >>

\* reflect.Select chooses the context's case: YieldAll returns
\* fmt.Errorf("async wait canceled: %w", ctx.Err()).
WaitSelectCtx ==
    /\ pc[FanIn] = "wSelect"
    /\ CtxFired(ctx[FanIn])
    /\ WaitFinish(yl[FanIn], Wrap("async wait canceled", CtxErr(ctx[FanIn])))
    /\ UNCHANGED << chanVars, memoVars, kind, ctx, rcv, atCall, cellVars, cbVars, itemVars, seqVars >>

ItemResolve(i) ==
    \/ ItemFulfill(i)
    \/ ItemReject(i)
    \/ ItemCloseEmpty(i)

WaitStep ==
    \/ \E idx \in Items : WaitSelectItem(idx)
    \/ WaitSelectCtx

\* The lists a combinator is called with: all items, or none.
ItemCounts == {0, NumItems}

CombineNext ==
    \/ \E i \in Items : ItemResolve(i)
    \/ \E i \in Items : ItemClose(i)
    \/ \E k \in ItemCounts, c \in CtxStates : WaitAll(k, c)
    \/ \E k \in ItemCounts, c \in CtxStates : WaitAllValues(k, c)
    \/ \E k \in ItemCounts, c \in CtxStates : WaitFirst(k, c)
    \/ WaitStep
    \/ \E c \in CtxStates : Cancel(FanIn, c)

SpecCombine == Init /\ [][CombineNext]_vars

\* The Go scheduler runs every goroutine that can take a step; nobody is
\* obliged to resolve an item, to call a combinator or to cancel a context.
FairCombine ==
    /\ SpecCombine
    /\ WF_vars(WaitStep)
    /\ \A i \in Items : WF_vars(ItemClose(i))

(***************************************************************************)
(* The iterator over struct-based Futures, each with a value cell and a    *)
(* Promise of its own.  The goroutine FanIn runs yieldTo with the yield    *)
(* function of its caller; active[i] of the code is item i + 1.            *)
(***************************************************************************)

\* Promise.Resolve(value) / Promise.Reject(err) of an item, value.complete:
\* r.v = value
SeqCompleteStore(i, res) ==
    /\ ipc[i] = "idle"
    /\ iv' = [iv EXCEPT ![i] = res]
    /\ ipc' = [ipc EXCEPT ![i] = "seqClose"]
    /\ UNCHANGED << chanVars, memoVars, readerVars, cellVars, cbVars, ich, isent,
                    idone, iready, yanswers, swap >>

\* value.complete: close(r.done); no callback is registered with an item, so
\* the queue it takes and closes next is empty.
SeqCompleteClose(i) ==
    /\ ipc[i] = "seqClose"
    /\ idone' = [idone EXCEPT ![i] = TRUE]
    /\ iready' = Append(iready, i)
    /\ ipc' = [ipc EXCEPT ![i] = "returned"]
    /\ UNCHANGED << chanVars, memoVars, readerVars, cellVars, cbVars, ich, isent,
                    iv, yanswers, swap >>

\* newIterator(ctx, value, l) with the first k items and a context that is
\* live or has fired, and the call of yieldTo: with no items the loop does
\* not run.
newIterator(k, c) ==
    /\ pc[FanIn] = "idle"
    /\ kind' = [kind EXCEPT ![FanIn] = "yieldTo"]
    /\ ctx' = [ctx EXCEPT ![FanIn] = c]
    /\ LET y == [NoYield EXCEPT !.k = k, !.mode = "yield", !.valid = 1 .. k]
       IN  /\ yl' = [yl EXCEPT ![FanIn] = y]
           /\ pc' = [pc EXCEPT ![FanIn] = IF k = 0 THEN "returned" ELSE "sSelect"]
    /\ UNCHANGED << chanVars, memoVars, rcv, ret, atCall, cellVars, cbVars, itemVars, seqVars >>

\* yieldTo: reflect.Select chooses an item whose done is closed; its case is
\* disabled and yield is called with i.value(f), the Result accessor of the
\* item, which reads the Result in its cell; the loop ends when yield returns
\* false or after numFutures runs.
yieldTo(idx) ==
    /\ pc[FanIn] = "sSelect"
    /\ idx \in yl[FanIn].valid
    /\ idone[idx]
    /\ LET y == [yl[FanIn] EXCEPT !.chosen = idx, !.valid = @ \ {idx},
                                  !.deliv = Append(@, << idx, iv[idx] >>),
                                  !.i = @ + 1]
       IN  \E continue \in YieldAnswers(y.mode, iv[idx]) :
                /\ yanswers' = Append(yanswers, continue)
                /\ yl' = [yl EXCEPT ![FanIn] = y]
                /\ pc' = [pc EXCEPT ![FanIn] =
                             IF continue /\ y.i < y.k THEN "sSelect" ELSE "returned"]
    /\ UNCHANGED << chanVars, memoVars, kind, ctx, rcv, ret, atCall, cellVars, cbVars, itemVars,
                    idone, iv, iready, swap >>

\* A cancellation that hands the error to every index.
yieldToCtx_AllIndexes ==
    /\ pc[FanIn] = "sSelect"
    /\ CtxFired(ctx[FanIn])
    /\ yl' = [yl EXCEPT ![FanIn].err = Wrap("list yield canceled", CtxCause(ctx[FanIn])),
                        ![FanIn].todo = 1 .. yl[FanIn].k]
    /\ pc' = [pc EXCEPT ![FanIn] = "sYieldErr"]
    /\ UNCHANGED << chanVars, memoVars, kind, ctx, rcv, ret, atCall, cellVars, cbVars, itemVars, seqVars >>

\* yieldTo: reflect.Select chooses the context's case:
\* err := fmt.Errorf("list yield canceled: %w", context.Cause(i.ctx)) and
\* yieldErr starts with the cases that are still valid.
yieldToCtx ==
    /\ pc[FanIn] = "sSelect"
    /\ CtxFired(ctx[FanIn])
    /\ yl' = [yl EXCEPT ![FanIn].err = Wrap("list yield canceled", CtxCause(ctx[FanIn])),
                        ![FanIn].todo = yl[FanIn].valid]
    /\ pc' = [pc EXCEPT ![FanIn] = "sYieldErr"]
    /\ UNCHANGED << chanVars, memoVars, kind, ctx, rcv, ret, atCall, cellVars, cbVars, itemVars, seqVars >>

\* yieldErr: yield(idx, result.OfError(err)) for the next index whose case is
\* valid; the loop breaks when yield returns false.
yieldErr ==
    /\ pc[FanIn] = "sYieldErr"
    /\ LET idx == Min(yl[FanIn].todo)
           y == [yl[FanIn] EXCEPT !.todo = @ \ {idx},
                                  !.deliv = Append(@, << idx, OfError(yl[FanIn].err) >>)]
       IN  \E continue \in YieldAnswers(y.mode, OfError(yl[FanIn].err)) :
                /\ yanswers' = Append(yanswers, continue)
                /\ yl' = [yl EXCEPT ![FanIn] = y]
                /\ pc' = [pc EXCEPT ![FanIn] =
                             IF continue /\ y.todo # {} THEN "sYieldErr" ELSE "returned"]
    /\ UNCHANGED << chanVars, memoVars, kind, ctx, rcv, ret, atCall, cellVars, cbVars, itemVars,
                    idone, iv, iready, swap >>

\* Each item is resolved at most once, by Promise.Resolve(i) or by
\* Promise.Reject(err); nobody is obliged to resolve it.
IteratorNext ==
    \/ \E i \in Items : SeqCompleteStore(i, OfValue(i))
    \/ \E i \in Items : SeqCompleteStore(i, OfError(ErrTest(i)))
    \/ \E i \in Items : SeqCompleteClose(i)
    \/ \E k \in ItemCounts, c \in CtxStates : newIterator(k, c)
    \/ \E idx \in Items : yieldTo(idx)
    \/ yieldToCtx
    \/ yieldErr
    \/ \E c \in CtxStates : Cancel(FanIn, c)

SpecIterator == Init /\ [][IteratorNext]_vars

(***************************************************************************)
(* Properties of the Memoizer.                                             *)
(***************************************************************************)

\* A reader's call returned a Result: it did not return ErrNotReady and did
\* not return through its cancellation signal.
ReturnedResult(r) ==
    /\ kind[r] \in {"Wait", "TryWait"}
    /\ pc[r] = "returned"
    /\ ret[r][2] # ErrNotReady
    /\ ~ErrorIs(ret[r][2], Canceled)

\* The Results the fan-in loop delivered to yield.
Delivered == { yl[FanIn].deliv[n][2] : n \in 1 .. Len(yl[FanIn].deliv) }

\* The terminal Result of the source: what the producer sent, or ErrNoResult
\* for a source closed without a value.
TerminalResult == IF sent # NilResult THEN sent ELSE errorResult(ErrNoResult)

\* C1: for readers entering through Wait, TryWait and YieldAll in any
\* interleaving, whether the source delivered a value or was closed empty,
\* close(m.done) is executed at most once, by one reader, never on a closed
\* channel, and it has been executed once whenever some reader holds a Result.
C1_DoneClosedOnce ==
    /\ mdone <= 1
    /\ Len(closedBy) = mdone
    /\ \A r \in Procs : pc[r] # "panicked"
    /\ ((\E r \in Readers : ReturnedResult(r)) \/ Delivered # {}) => mdone = 1

\* Two racing readers of a source closed empty both returned, after one close.
C1_Witness ==
    /\ sent = NilResult
    /\ mdone = 1
    /\ \A r \in Readers : ReturnedResult(r) /\ kind[r] = "Wait"

\* C2: once the source is resolved, every reader inside Memoizer.Wait
\* eventually returns.
C2_NoReaderBlocksForever ==
    \A r \in Readers :
        (kind[r] = "Wait" /\ pc[r] \notin {"idle", "returned"} /\ SourceResolved)
            ~> (pc[r] = "returned")

\* C3: every reader that returns a Result returns the terminal Result: what
\* the producer sent if it sent one, ErrNoResult only for a source closed
\* without a value, never the unset m.value.
C3_SameTerminalResult ==
    /\ \A r \in Readers : ReturnedResult(r) => ret[r] = V(TerminalResult)
    /\ \A v \in Delivered : v = TerminalResult

\* One reader received the value from the channel, the other one got it from
\* the cache.
C3_Witness ==
    /\ sent = valueResult(1)
    /\ \A r \in Readers : ReturnedResult(r) /\ ret[r] = << 1, Nil >>
    /\ \E r \in Readers : rcv[r] = NilResult

(***************************************************************************)
(* Properties of the Promises and of the struct-based Future.              *)
(***************************************************************************)

\* C4: a resolving call made on a Promise that is already resolved never
\* completes normally, whichever method made the first resolution and
\* whichever is used the second time, on the struct-based Promise (Resolve,
\* Reject, Do) and on the channel-based one (Fulfill, Reject, Do).
C4_SecondResolveNeverReturns ==
    /\ \A p \in Resolvers : ccall[p].late => cpc[p] # "returned"
    /\ \A p \in Resolvers : pcall[p].late => ppc[p] # "returned"

\* Both Promises were resolved and then resolved again by another method; both
\* second calls panicked.
C4_Witness ==
    /\ ccall[1].method = "Resolve" /\ cpc[1] = "returned"
    /\ ccall[2].method = "Do" /\ ccall[2].late /\ cpc[2] = "panicked"
    /\ pcall[1].method = "Do" /\ ppc[1] = "returned"
    /\ pcall[2].method = "Fulfill" /\ pcall[2].late /\ ppc[2] = "panicked"

\* C5: once the done signal has fired the cached Result is the Result of the
\* first resolution, also after a second, failing resolve or reject.
C5_CachedResultImmutable ==
    cdone > 0 => cv = cfirst

\* C6: an Await called on a cell that was already resolved never returns a
\* cancellation error, even if its context has fired.
C6_ResolvedBeatsCancel ==
    \A r \in Readers :
        (kind[r] = "Await" /\ pc[r] = "returned" /\ atCall[r])
            => /\ ~ErrorIs(ret[r][2], Canceled)
               /\ ~ErrorIs(ret[r][2], ErrCause)

\* Exactly one resolving call has been made.
SingleResolution == cpc[1] # "idle" /\ cpc[2] = "idle"

\* C7: with a single resolving call, every Await whose context is never
\* cancelled returns exactly the Result passed to that call: it does not
\* return before done is closed, it never reads a cell whose done is closed
\* and whose Result is not stored, and once done is closed it eventually
\* returns.
C7_AwaitersSeeTheResolution ==
    /\ [](SingleResolution /\ cdone > 0 => cv = ccall[1].res)
    /\ [](\A r \in Readers :
            (SingleResolution /\ kind[r] = "Await" /\ pc[r] = "returned" /\ ctx[r] = "live")
                => cdone = 1 /\ ret[r] = ResultV(ccall[1].res))
    /\ \A r \in Readers :
            (kind[r] = "Await" /\ pc[r] = "awaiting" /\ cdone > 0) ~> (pc[r] = "returned")

\* All readers awaited with a live context before the single Reject and all
\* returned its error.
C7_Witness ==
    /\ SingleResolution
    /\ ccall[1].method = "Reject"
    /\ \A r \in Readers :
        /\ kind[r] = "Await" /\ pc[r] = "returned" /\ ctx[r] = "live" /\ ~atCall[r]
        /\ ret[r] = << 0, ErrTest(1) >>

\* C8: an Await that returns while the cell is pending returns the zero value
\* and an error that wraps the cause of its fired context, and leaves the cell
\* as it was; an Await with a fired context does not block.
C8_AwaitCancelled ==
    /\ [][\A r \in Readers :
            (pc[r] = "awaiting" /\ pc'[r] = "returned" /\ cdone = 0)
                => /\ CtxFired(ctx[r])
                   /\ ret'[r][1] = 0
                   /\ ret'[r][2] # CtxCause(ctx[r])
                   /\ ErrorIs(ret'[r][2], CtxCause(ctx[r]))
                   /\ cellVars' = cellVars]_vars
    /\ \A r \in Readers :
            (pc[r] = "awaiting" /\ CtxFired(ctx[r])) ~> (pc[r] = "returned")

\* An Await on a cell never resolved returned the error that wraps the cause
\* its context was cancelled with.
C8_Witness ==
    /\ \A p \in Resolvers : cpc[p] = "idle"
    /\ \E r \in Readers :
        /\ kind[r] = "Await" /\ pc[r] = "returned" /\ ctx[r] = "cause"
        /\ ret[r] = << 0, << "future await" >> \o ErrCause >>

\* C9: Try returns at once; it returns ErrNotReady exactly when done is not
\* closed at the call and the cached Result otherwise, and changes nothing of
\* the cell.
C9_TryNonBlocking ==
    [][\A r \in Readers :
            (pc[r] = "idle" /\ kind'[r] = "Try")
                => /\ pc'[r] = "returned"
                   /\ (ret'[r] = << 0, ErrNotReady >>) <=> (cdone = 0)
                   /\ cdone > 0 => ret'[r] = ResultV(cv)
                   /\ cellVars' = cellVars]_vars

\* One Try found the Result stored but done not yet closed and returned
\* ErrNotReady; a later one returned the cached Result.
C9_Witness ==
    /\ cpc[1] = "returned" /\ ccall[1].method = "Resolve"
    /\ kind[1] = "Try" /\ ret[1] = << 0, ErrNotReady >>
    /\ kind[2] = "Try" /\ ret[2] = << 1, Nil >>

\* A read that returned a Result of the cell: a Try that did not return
\* ErrNotReady, or an Await with a context that was not cancelled.
ReadResolved(r) ==
    /\ pc[r] = "returned"
    /\ \/ kind[r] = "Try" /\ ret[r][2] # ErrNotReady
       \/ kind[r] = "Await" /\ ctx[r] = "live"

\* C10: all reads of a resolved struct-based cell return the identical
\* cached Result.
C10_ReadsIdentical ==
    \A r1, r2 \in Readers : (ReadResolved(r1) /\ ReadResolved(r2)) => ret[r1] = ret[r2]

(***************************************************************************)
(* Properties of the callbacks and of the derived cells.                   *)
(***************************************************************************)

\* A callback is registered once its caller went through onComplete.
CallbackRegistered(r) == kind[r] \in {"OnComplete", "Transform", "AndThen"} /\ pc[r] # "idle"

\* C11: every callback registered on a cell that is resolved is invoked
\* exactly once with the Result of the resolving call: never twice, never with
\* another Result, by complete if it was appended to the queue and by its own
\* caller otherwise, and eventually once the resolving call is made.
C11_CallbackExactlyOnce ==
    /\ [](\A r \in Readers :
            /\ cbrun[r].n <= 1
            /\ cbrun[r].n = 1 => cbrun[r].res = ccall[1].res
            /\ cbrun[r].n = 1 =>
                   (cbrun[r].by = << "resolver", 1 >>) <=> (\E n \in 1 .. Len(regs) : regs[n] = r)
            /\ pc[r] # "panicked")
    /\ \A r \in Readers :
            (CallbackRegistered(r) /\ cpc[1] # "idle") ~> (cbrun[r].n = 1)

\* One callback was appended before the resolution and drained by complete,
\* the other was registered after it and run by its caller.
C11_Witness ==
    /\ \A r \in Readers : kind[r] = "OnComplete" /\ cbrun[r].n = 1 /\ pc[r] = "returned"
    /\ cbrun[1].by = << "resolver", 1 >>
    /\ cbrun[2].by = << "caller", 2 >>
    /\ cpc[1] = "returned"

\* C12: complete invokes the queued callbacks in the order in which they
\* were registered: what it has invoked so far is always the beginning of the
\* registrations in their order, and all of them once it has returned.
C12_DrainInRegistrationOrder ==
    /\ Len(drained) <= Len(regs)
    /\ drained = SubSeq(regs, 1, Len(drained))
    /\ cpc[1] = "returned" => drained = regs

\* The reader that called second registered first; complete invoked both
\* callbacks in the order of the registrations.
C12_Witness ==
    /\ regs = << 2, 1 >>
    /\ drained = << 2, 1 >>
    /\ cpc[1] = "returned"

\* C13: when done of the cell is closed at the call of OnComplete, the
\* callback has run, on the caller's thread, by the time OnComplete returns.
C13_ResolvedRunsOnCaller ==
    \A r \in Readers :
        (kind[r] = "OnComplete" /\ atCall[r] /\ pc[r] = "returned")
            => /\ cbrun[r].n = 1
               /\ cbrun[r].by = << "caller", r >>

\* What fn makes of the Result of the resolving call.
Transformed(r) ==
    LET in == ResultV(ccall[1].res)
        out == Apply(dcell[r].fn, in[1], in[2])
    IN  Of(out[1], out[2])

\* C14: the cell Transform returns is resolved with fn of the source's Result;
\* it is resolved when Transform returns if done of the source was closed at
\* the call, and when the call that resolves the source has returned.
C14_TransformSynchronous ==
    \A r \in Readers :
        kind[r] = "Transform" =>
            /\ dcell[r].done > 0 => dcell[r].v = Transformed(r)
            /\ (atCall[r] /\ pc[r] = "returned") => dcell[r].done = 1
            /\ (pc[r] = "returned" /\ cpc[1] = "returned") => dcell[r].done = 1

\* C15: for a source resolved with a failure, fn of Transform and AndThen is
\* not invoked and the new cell resolves with the source's error.
C15_FailureShortCircuits ==
    \A r \in Readers :
        (kind[r] \in {"Transform", "AndThen"} /\ ccall[1].res.type = "Error")
            => /\ ~dcell[r].applied
               /\ dcell[r].done > 0 => dcell[r].v = OfError(ccall[1].res.err)

\* C16: the callback of AndThen hands fn to a goroutine: neither complete
\* nor the caller of AndThen waits for it or runs it, and under fair scheduling
\* the new cell is resolved, once, with fn of the source's Result.
C16_AndThenDecoupled ==
    /\ [](\A r \in Readers :
            kind[r] = "AndThen" =>
                /\ pc[r] # "ocWait"
                /\ cpc[1] = "cDrainWait" => Head(ccall[1].queue) # r
                /\ dcell[r].done <= 1
                /\ dcell[r].pc # "panicked"
                /\ dcell[r].done = 1 => dcell[r].v = Transformed(r))
    /\ [][\A r \in Readers :
            (kind[r] = "AndThen" /\ cbrun'[r].n # cbrun[r].n)
                => /\ dcell'[r].pc = "store"
                   /\ dcell'[r].done = 0
                   /\ dcell'[r].v = NilResult]_vars
    /\ \A r \in Readers :
            (kind[r] = "AndThen" /\ pc[r] # "idle" /\ cpc[1] # "idle") ~> (dcell[r].done = 1)

\* The resolving call invoked the callback of AndThen and returned while fn
\* was not yet evaluated.
C16_Witness ==
    /\ kind[1] = "AndThen"
    /\ cbrun[1].by = << "resolver", 1 >>
    /\ cpc[1] = "returned"
    /\ dcell[1].pc = "store"
    /\ ~dcell[1].applied

(***************************************************************************)
(* Properties of the combinators.                                          *)
(***************************************************************************)

\* An item is resolved once its producer has sent a Result or closed it.
ItemResolved(i) == ipc[i] # "idle"

\* The Result a resolved item yields: what its producer sent, or ErrNoResult
\* for an item closed without a value.
ItemResult(i) == IF isent[i] # NilResult THEN isent[i] ELSE errorResult(ErrNoResult)

\* The combinator mode was called and has returned.
Returned(mode) == kind[FanIn] = mode /\ pc[FanIn] = "returned"

\* The last Result handed to yield.
LastYielded == yl[FanIn].deliv[Len(yl[FanIn].deliv)]

C18_WaitAllValuesStopsAtFailure ==
    /\ [](kind[FanIn] = "WaitAllValues" =>
            /\ pc[FanIn] # "panicked"
            /\ \A n \in 1 .. Len(yl[FanIn].deliv) :
                    V(yl[FanIn].deliv[n][2])[2] # Nil =>
                        /\ n = Len(yl[FanIn].deliv)
                        /\ pc[FanIn] = "returned"
                        /\ yl[FanIn].deliv[n][2] = ItemResult(yl[FanIn].deliv[n][1])
                        /\ yl[FanIn].results = << >>
                        /\ ret[FanIn][2] # V(yl[FanIn].deliv[n][2])[2]
                        /\ ErrorIs(ret[FanIn][2], V(yl[FanIn].deliv[n][2])[2]))
    /\ []((Returned("WaitAllValues") /\ ctx[FanIn] = "live"
                /\ \A n \in 1 .. Len(yl[FanIn].deliv) : V(yl[FanIn].deliv[n][2])[2] = Nil) =>
            /\ ret[FanIn][2] = Nil
            /\ Len(yl[FanIn].results) = yl[FanIn].k
            /\ \A i \in 1 .. yl[FanIn].k :
                    isent[i].type = "valueResult" /\ yl[FanIn].results[i] = isent[i].value)

\* Item 2 was rejected while item 1 was pending: WaitAllValues returned the
\* wrapped error of item 2 (index 1 of the code) and item 1 is still pending.
C18_Witness ==
    /\ Returned("WaitAllValues")
    /\ ctx[FanIn] = "live"
    /\ ~ItemResolved(1)
    /\ yl[FanIn].results = << >>
    /\ ret[FanIn] = << 0, << "async WaitAllValues result 1" >> \o ErrTest(2) >>

C20_EmptyListReturns ==
    (kind[FanIn] \in {"WaitAll", "WaitAllValues", "WaitFirst"} /\ yl[FanIn].k = 0)
        => /\ pc[FanIn] = "returned"
           /\ yl[FanIn].results = << >>
           /\ ret[FanIn] = << 0, Nil >>

\* C21: a combinator over a non-empty list that returned while none of its
\* items was resolved returned no result and an error that wraps the cause
\* of the cancellation of its context.
C21_CancelledBeforeAnyResolved ==
    (/\ kind[FanIn] \in {"WaitAll", "WaitAllValues", "WaitFirst"}
     /\ pc[FanIn] \in {"returned", "panicked"}
     /\ yl[FanIn].k > 0
     /\ \A i \in 1 .. yl[FanIn].k : ~ItemResolved(i))
        => /\ pc[FanIn] = "returned"
           /\ CtxFired(ctx[FanIn])
           /\ yl[FanIn].results = << >>
           /\ ret[FanIn][1] = 0
           /\ ret[FanIn][2] # Nil
           /\ ErrorIs(ret[FanIn][2], CtxCause(ctx[FanIn]))

\* The indexes yield was called with, in the order of the calls.
YieldedIndexes == [n \in 1 .. Len(yl[FanIn].deliv) |-> yl[FanIn].deliv[n][1]]

Counted(r) ==
    pc[r] \in {"select", "trySelect", "ctxRelease", "tryRelease", "okStore", "okClose",
               "okRelease", "dec", "lastSelect", "lastStore", "lastClose", "lastRelease"}

\* C22: when YieldAll has returned, by any path, none of its registrations is
\* left in the running counter, which counts the readers inside Wait or
\* TryWait and nothing else; a Memoizer it observed no Result of is as
\* a fresh one: nothing cached, done open, the source channel untouched.
C22_NoLeakedRegistration ==
    (kind[FanIn] = "YieldAll" /\ pc[FanIn] = "returned")
        => /\ running = Cardinality({r \in Readers : Counted(r)})
           /\ (yl[FanIn].deliv = << >> /\ \A r \in Readers : pc[r] = "idle")
                 => /\ running = 0
                    /\ mdone = 0
                    /\ mvalue = NilResult
                    /\ ch.buf = IF sent = NilResult THEN << >> ELSE << sent >>

\* YieldAll over two copies of a Memoizer whose source holds a Result returned
\* through its cancelled context without observing it, having added and
\* released both registrations.
C22_Witness ==
    /\ kind[FanIn] = "YieldAll"
    /\ pc[FanIn] = "returned"
    /\ yl[FanIn].added = 2
    /\ yl[FanIn].deliv = << >>
    /\ ret[FanIn] = << 0, Wrap("async wait canceled", Canceled) >>
    /\ sent # NilResult
    /\ running = 0

(***************************************************************************)
(* Properties of the iterator.                                             *)
(***************************************************************************)

\* yieldTo has returned after reflect.Select chose the context's case.
IteratorCancelled ==
    /\ kind[FanIn] = "yieldTo"
    /\ pc[FanIn] = "returned"
    /\ yl[FanIn].err # Nil

\* The number of yield calls made for index idx.
Deliveries(idx) ==
    Cardinality({n \in 1 .. Len(yl[FanIn].deliv) : yl[FanIn].deliv[n][1] = idx})

\* C24 as stated: after the context's case was selected, every index that
\* was not observed before has received the cancellation error, whatever
\* yield returned.
C24_ErrorToEveryPendingIndex ==
    IteratorCancelled =>
        \A idx \in yl[FanIn].valid :
            \E n \in 1 .. Len(yl[FanIn].deliv) :
                yl[FanIn].deliv[n] = << idx, OfError(yl[FanIn].err) >>

\* C24, amended: yield is called at most once per index; an index observed
\* before the context's case was selected was handed the Result of its item;
\* after the selection the error that wraps the cancellation cause is handed,
\* in index order, to indexes not observed before and to no other, until
\* yield returns false, which ends the iteration at once; if yield never
\* returned false every index has received exactly one delivery.
C24_ErrorToPendingUntilStopped ==
    kind[FanIn] = "yieldTo" =>
        /\ Len(yanswers) = Len(yl[FanIn].deliv)
        /\ \A idx \in 1 .. yl[FanIn].k : Deliveries(idx) <= 1
        /\ \A n \in 1 .. Len(yl[FanIn].deliv) :
              LET idx == yl[FanIn].deliv[n][1]
                  v == yl[FanIn].deliv[n][2]
              IN  /\ idx \in 1 .. yl[FanIn].k
                  /\ ~yanswers[n] => (n = Len(yl[FanIn].deliv) /\ pc[FanIn] = "returned")
                  /\ IF idx \in yl[FanIn].valid
                       THEN /\ yl[FanIn].err = Wrap("list yield canceled", CtxCause(ctx[FanIn]))
                            /\ CtxFired(ctx[FanIn])
                            /\ v = OfError(yl[FanIn].err)
                            /\ \A m \in 1 .. Len(yl[FanIn].deliv) :
                                   (yl[FanIn].deliv[m][1] \in yl[FanIn].valid /\ m < n)
                                       => yl[FanIn].deliv[m][1] < idx
                            /\ \A j \in yl[FanIn].valid : j < idx => Deliveries(j) = 1
                       ELSE /\ idone[idx]
                            /\ v = iv[idx]
                            /\ v # NilResult
                            /\ \A m \in 1 .. Len(yl[FanIn].deliv) :
                                   yl[FanIn].deliv[m][1] \in yl[FanIn].valid => n < m
        /\ (IteratorCancelled /\ \A n \in 1 .. Len(yanswers) : yanswers[n])
              => \A idx \in 1 .. yl[FanIn].k : Deliveries(idx) = 1

\* Item 2 was observed with its value, then the context's case was selected
\* with item 1 pending: index 1 received the error, yield returned true
\* both times.
C24_Witness ==
    /\ IteratorCancelled
    /\ ctx[FanIn] = "cause"
    /\ yanswers = << TRUE, TRUE >>
    /\ yl[FanIn].deliv = << << 2, OfValue(2) >>,
                            << 1, OfError(<< "list yield canceled" >> \o ErrCause) >> >>
    /\ ~idone[1]

\* C25: the iterator yields Results in completion order: of two items whose
\* Results were both yielded, the one whose done was closed first was
\* yielded first.  The rank of an item is its place in the order in which
\* the items became ready, or in the order of the yield calls.
C25_CompletionOrder ==
    LET ReadyRank(i) == CHOOSE n \in 1 .. Len(iready) : iready[n] = i
        Yielded(i) == \E n \in 1 .. Len(yl[FanIn].deliv) : yl[FanIn].deliv[n] = << i, iv[i] >>
        YieldRank(i) ==
            CHOOSE n \in 1 .. Len(yl[FanIn].deliv) : yl[FanIn].deliv[n] = << i, iv[i] >>
    IN  kind[FanIn] = "yieldTo" =>
            \A i, j \in 1 .. yl[FanIn].k :
                (Yielded(i) /\ Yielded(j) /\ ReadyRank(i) < ReadyRank(j))
                    => YieldRank(i) < YieldRank(j)

(***************************************************************************)
(* Properties of the plain channel-based Future.                           *)
(***************************************************************************)

\* C26: once the Promise was fulfilled or rejected, at most one Wait or
\* TryWait call over all calls returns the Result, every call made after the
\* resolution returns the Result or ErrNoResult, one call has the Result as
\* soon as such a call has returned, and a Wait made after the resolution
\* finds the channel ready.
C26_SingleConsumption ==
    LET After == {r \in Readers : atCall[r]}
        Got == {r \in Readers : pc[r] = "returned" /\ ret[r] = V(sent)}
    IN  sent # NilResult =>
            /\ Cardinality(Got) <= 1
            /\ \A r \in After :
                    /\ pc[r] = "fSelect" => ChanReady
                    /\ pc[r] = "returned" =>
                          /\ ret[r] \in {V(sent), << 0, ErrNoResult >>}
                          /\ Cardinality(Got) = 1

(***************************************************************************)
(* Properties of the non-blocking and the cancellable reads.               *)
(***************************************************************************)

\* C27: a non-blocking read never suspends: no reader inside
\* Memoizer.TryWait is at the receive from m.done while done is open.
C27_TryWaitNeverSuspends ==
    \A r \in Readers :
        kind[r] = "TryWait" => ~(pc[r] = "waitDone" /\ mdone = 0)

\* C28: once the source has delivered and a reader has cached its Result,
\* every later Memoizer.TryWait returns that cached Result: a TryWait called
\* when done is closed does not take the default case and does not return
\* ErrNotReady.
C28_TryWaitCachedOrNotReady ==
    \A r \in Readers :
        (kind[r] = "TryWait" /\ atCall[r]) =>
            /\ pc[r] # "tryRelease"
            /\ pc[r] = "returned" => ret[r] = V(mvalue)

\* C29: every Memoizer.Wait whose context has fired returns.
C29_CancelledWaitReturns ==
    \A r \in Readers :
        (kind[r] = "Wait" /\ CtxFired(ctx[r])) ~> (pc[r] = "returned")

\* C30: a YieldAll over one or more copies of one Memoizer, with no other
\* reader of that Memoizer, returns once the source is resolved.
C30_CopiesTerminate ==
    [](\A r \in Readers : pc[r] = "idle")
        => ((kind[FanIn] = "YieldAll" /\ yl[FanIn].k >= 1 /\ SourceResolved)
                ~> (pc[FanIn] = "returned"))

(***************************************************************************)
(* Properties of the running counter and of the leader election.           *)
(***************************************************************************)

\* C31: a step that writes m.value or closes m.done is taken by a reader
\* that received a value from the source, or by one whose decrement reached
\* zero and whose compare-and-swap from 0 to 1 succeeded; a reader whose
\* decrement was nonzero or whose compare-and-swap failed goes to the wait
\* for the done signal, and leaves it only when done is closed, writing
\* nothing.
C31_LeaderElection ==
    [][\A r \in Procs :
          pc'[r] # pc[r] =>
            /\ (mvalue' # mvalue \/ mdone' # mdone) =>
                  \/ rcv[r] # NilResult /\ pc[r] \in {"okStore", "okClose"}
                  \/ rcv[r] = NilResult /\ pc[r] \in {"lastStore", "lastClose"}
            /\ pc'[r] = "lastSelect" => (pc[r] = "cas" /\ running = 0 /\ running' = 1)
            /\ pc'[r] = "lastStore" => (pc[r] = "lastSelect" /\ mdone = 0)
            /\ pc'[r] = "lastClose" => pc[r] = "lastStore"
            /\ (pc[r] = "dec" /\ running # 1) => pc'[r] = "waitDone"
            /\ (pc[r] = "cas" /\ running # 0) => (pc'[r] = "waitDone" /\ running' = running)
            /\ pc[r] = "waitDone" =>
                  (mdone > 0 /\ mvalue' = mvalue /\ mdone' = mdone /\ running' = running)]_vars

\* Reader 1 observed the closed source, its compare-and-swap failed because
\* reader 2 had arrived; reader 2 resolved the cell with ErrNoResult and
\* reader 1 returned what reader 2 cached.
C31_Witness ==
    /\ closedBy = << 2 >>
    /\ mvalue = errorResult(ErrNoResult)
    /\ kind[1] = "Wait"
    /\ rcv[1] = NilResult
    /\ pc[1] = "returned"
    /\ ret[1] = << 0, ErrNoResult >>

\* C32 as stated: a reader whose first decrement reached zero, and which so
\* went on to the compare-and-swap, decrements running once more with the
\* step in which it leaves processResult, whether the swap succeeded or not.
C32_SecondDecrementInAllCases ==
    [][\A r \in Procs :
          (pc'[r] # pc[r] /\ swap[r] # "none" /\ swap'[r] = "none")
              => running' = running - 1]_vars

\* C32, amended: such a reader decrements running a second time exactly when
\* its swap succeeded, after resolving or after finding the cell resolved;
\* when the swap failed it waits for done and returns without touching the
\* counter again.  Between the swap and the return it changes running in no
\* other step.
C32_SecondDecrementAfterSwap ==
    [][\A r \in Procs :
          pc'[r] # pc[r] =>
            /\ (swap[r] = "none" /\ swap'[r] # "none") =>
                  /\ pc[r] = "cas"
                  /\ swap'[r] = "won" <=> (running = 0 /\ running' = 1)
                  /\ swap'[r] = "lost" <=> (running # 0 /\ running' = running)
            /\ (swap[r] = "won" /\ swap'[r] = "none") => running' = running - 1
            /\ (swap[r] = "lost" /\ swap'[r] = "none") => (running' = running /\ mdone > 0)
            /\ (swap[r] # "none" /\ swap'[r] # "none") => (running' = running /\ swap'[r] = swap[r])]_vars

\* Reader 1 has lost its swap to reader 2, which resolved the cell and left:
\* reader 1 is about to return from the wait for done, and running is 0.
C32_Witness ==
    /\ swap[1] = "lost"
    /\ pc[1] = "waitDone"
    /\ mdone > 0
    /\ closedBy = << 2 >>
    /\ pc[2] = "returned"
    /\ running = 0

\* C33: the running counter is never negative, and it is 0 in every state
\* in which no reader is inside Wait, TryWait or a fan-in call, whatever
\* mix of Wait, TryWait and YieldAll readers ran before.
C33_RunningCounter ==
    /\ running >= 0
    /\ (\A r \in Procs : pc[r] \in {"idle", "returned"}) => running = 0

\* A Wait, a TryWait and a fan-in over the Memoizer have all returned, one
\* of them with the value it stored and one with ErrNotReady.
C33_Witness ==
    /\ kind[FanIn] = "YieldAll" /\ pc[FanIn] = "returned"
    /\ kind[1] = "Wait" /\ pc[1] = "returned"
    /\ kind[2] = "TryWait" /\ pc[2] = "returned" /\ ret[2] = << 0, ErrNotReady >>
    /\ mdone = 1
    /\ running = 0

\* C34: a Wait that leaves through its context and a TryWait that answers
\* ErrNotReady consume nothing.  Their call adds 1 to running, the case they
\* select changes nothing, and their return subtracts the 1 again; none of
\* these steps touches the source channel, m.value or m.done.  So a value
\* the producer sent is never lost to such a read: it is in the channel, in
\* the hands of a reader that received it, or cached in m.value.
C34_NoResultConsumesNothing ==
    /\ [][\A r \in Readers :
             (pc'[r] # pc[r] /\ (pc[r] \in {"ctxRelease", "tryRelease"}
                                   \/ pc'[r] \in {"select", "trySelect", "ctxRelease", "tryRelease"}))
                 => /\ ch' = ch /\ mvalue' = mvalue /\ mdone' = mdone
                    /\ running' = running
                                    + (IF pc[r] = "idle" THEN 1 ELSE 0)
                                    - (IF pc'[r] = "returned" THEN 1 ELSE 0)
                    /\ pc'[r] = "returned" =>
                          ret'[r] = << 0, IF pc[r] = "tryRelease"
                                            THEN ErrNotReady
                                            ELSE Wrap("memoizer wait", CtxErr(ctx[r])) >>]_vars
    /\ [](sent # NilResult =>
              \/ ch.buf = << sent >>
              \/ \E q \in Procs : pc[q] = "okStore" /\ rcv[q] = sent
              \/ mvalue = sent)

\* Reader 1's Wait returned the cancellation error, reader 2's TryWait
\* obtained the value the producer sent, and running is back at 0.
C34_Witness ==
    /\ kind[1] = "Wait" /\ pc[1] = "returned"
    /\ ret[1] = << 0, Wrap("memoizer wait", Canceled) >>
    /\ kind[2] = "TryWait" /\ pc[2] = "returned"
    /\ sent # NilResult /\ ret[2] = V(sent)
    /\ running = 0

(***************************************************************************)
(* The end of a fan-in.                                                    *)
(***************************************************************************)

\* C35: once yield has returned false, or reflect.Select has chosen the
\* context's case, YieldAll calls yield no more: it only releases the
\* registrations it still holds and returns, also when further futures are
\* ready.
C35_NoYieldAfterStop ==
    /\ [][\A r \in Procs :
             yl[r].stop # "none" => yl'[r].deliv = yl[r].deliv]_vars
    /\ [](\A r \in Procs :
             yl[r].stop # "none" =>
               LET err == IF pc[r] = "returned" THEN ret[r][2] ELSE yl[r].err
               IN  /\ pc[r] \in {"yRelease", "returned"}
                   /\ yl[r].stop = "yield" => err = Nil
                   /\ yl[r].stop = "ctx" => err = Wrap("async wait canceled", CtxErr(ctx[r])))

\* yield returned false at the first of two copies while the source was
\* already closed, so that the second copy was ready; YieldAll returned
\* after one call of yield.
C35_Witness ==
    /\ yl[FanIn].stop = "yield"
    /\ yl[FanIn].k = 2
    /\ Len(yl[FanIn].deliv) = 1
    /\ ch.closed
    /\ pc[FanIn] = "returned"

\* C36: WaitAll is all-or-nothing.  When it has returned it has either a nil
\* error and a Result for every index, or no results at all and the error
\* of the cancelled context; it never returns some of the Results, however
\* many items it had observed when the context's case was chosen.
C36_WaitAllAllOrNothing ==
    Returned("WaitAll") =>
        \/ /\ ret[FanIn][2] = Nil
           /\ Len(yl[FanIn].results) = yl[FanIn].k
           /\ Len(yl[FanIn].deliv) = yl[FanIn].k
           /\ \A i \in 1 .. yl[FanIn].k : yl[FanIn].results[i] # NilResult
        \/ /\ CtxFired(ctx[FanIn])
           /\ ret[FanIn] = << 0, Wrap("async wait canceled", CtxErr(ctx[FanIn])) >>
           /\ yl[FanIn].results = << >>
           /\ Len(yl[FanIn].deliv) < yl[FanIn].k

\* WaitAll had stored the Result of one of its items when the context's
\* case was chosen: it returned no results and the cancellation error.
C36_Witness ==
    /\ Returned("WaitAll")
    /\ yl[FanIn].k = NumItems
    /\ Len(yl[FanIn].deliv) = 1
    /\ yl[FanIn].results = << >>
    /\ ret[FanIn][2] # Nil

(***************************************************************************)
(* Callbacks and reads of the same cell.                                   *)
(***************************************************************************)

\* C37: done is closed before a callback runs, so a Try or an Await that
\* returns once a callback of the cell has been invoked returns the final
\* Result, the one that was passed to the callback, and neither ErrNotReady
\* nor any other error of its own.
C37_DoneBeforeCallbacks ==
    /\ [](\A cb \in Readers : cbrun[cb].n > 0 => (cdone > 0 /\ cv = cbrun[cb].res))
    /\ [][\A r \in Readers :
             (kind'[r] \in {"Try", "Await"} /\ pc[r] # "returned" /\ pc'[r] = "returned")
                 => \A cb \in Readers :
                        cbrun[cb].n > 0 => ret'[r] = ResultV(cbrun[cb].res)]_vars

\* C38: the hand-off of the callback list never deadlocks.  A resolving call
\* that has been made returns, and every registration returns, however they
\* interleave; a registration never finds the queue closed in its hands.  A
\* callback that calls OnComplete on the same cell finds the queue closed,
\* whether complete or a late registration runs it, so the nested callback
\* runs at once, with the Result of the cell, and is never put in the queue.
C38_HandOffNeverDeadlocks ==
    /\ [](\A r \in Readers :
             /\ pc[r] # "panicked"
             /\ dcell[r].pc = "nested" => (cqueue.closed /\ cqueue.buf = << >>)
             /\ (kind[r] = "Nested" /\ dcell[r].pc = "resolved") =>
                    (dcell[r].applied /\ dcell[r].v = ccall[1].res))
    /\ [](cpc[1] # "panicked")
    /\ (cpc[1] # "idle") ~> (cpc[1] = "returned")
    /\ \A r \in Readers : (pc[r] # "idle") ~> (pc[r] = "returned")
    /\ \A r \in Readers :
            (kind[r] = "Nested" /\ cbrun[r].n > 0) ~> (dcell[r].pc = "resolved")

\* Two registrations raced with the resolving call, which drained both
\* callbacks; the callback of reader 1 registered a nested callback while
\* complete was in its loop, and the nested callback ran.
C38_Witness ==
    /\ kind[1] = "Nested"
    /\ regs = << 2, 1 >>
    /\ cbrun[1].by = << "resolver", 1 >>
    /\ dcell[1].applied
    /\ cpc[1] = "cDrainWait"

(***************************************************************************)
(* The producer side of the channel-based Promise.                         *)
(***************************************************************************)

\* C39: the call that resolves a channel-based Promise for the first and
\* only time never waits and never fails, whether a reader has taken the
\* Result, will take it or never comes: its send finds the channel open with
\* its one slot free, its close finds the channel open, and when it has
\* returned the Result was handed over and the channel is closed.
C39_ResolveNeverBlocks ==
    \A p \in Resolvers :
        ~pcall[p].late =>
            /\ ppc[p] # "panicked"
            /\ ppc[p] = "send" =>
                  (ENABLED PromiseSend(p) /\ ~ch.closed /\ sent = NilResult)
            /\ ppc[p] = "close" =>
                  (ENABLED PromiseClose(p) /\ ~ch.closed /\ sent = pcall[p].res)
            /\ ppc[p] = "returned" => (ch.closed /\ sent = pcall[p].res)

\* Do has resolved the Promise and returned while no reader ever called: the
\* Result lies in the buffer of the closed channel.
C39_Witness ==
    /\ pcall[1].method = "Do"
    /\ ppc[1] = "returned"
    /\ \A r \in Readers : pc[r] = "idle"
    /\ sent # NilResult
    /\ ch = [buf |-> << sent >>, closed |-> TRUE]

\* C40: the channel ToChannel returns delivers the final Result of the cell
\* once and is then closed, whether ToChannel was called before or after the
\* resolution: what its receiver has got is a beginning of the Result
\* followed by the end of the channel.  The send of the callback always finds
\* the slot free, so the thread that runs it, the resolving call or the
\* caller of ToChannel, returns also when nobody ever receives.
C40_ToChannelDeliversOnce ==
    /\ [](cpc[1] # "panicked")
    /\ [](\A r \in Readers :
             kind[r] = "ToChannel" =>
                /\ pc[r] # "panicked" /\ dcell[r].pc # "panicked"
                /\ dcell[r].pc = "tcSend" => (dcell[r].v = NilResult /\ dcell[r].done = 0)
                /\ dcell[r].v # NilResult => dcell[r].v = ccall[1].res
                /\ dcell[r].done <= 1
                /\ dcell[r].done = 1 => dcell[r].applied
                /\ dcell[r].pc = "resolved" => dcell[r].done = 1
                /\ Len(yl[r].deliv) <= 2
                /\ Len(yl[r].deliv) >= 1 => yl[r].deliv[1] = << 1, ccall[1].res >>
                /\ Len(yl[r].deliv) = 2 => yl[r].deliv[2] = << 0, NilResult >>
                /\ pc[r] = "tcEof" => Len(yl[r].deliv) = 2)
    /\ (cpc[1] # "idle") ~> (cpc[1] = "returned")
    /\ \A r \in Readers :
            (kind[r] = "ToChannel" /\ cpc[1] # "idle")
                ~> (pc[r] \in {"returned", "tcEof"} /\ dcell[r].done = 1)

\* ToChannel was called before the resolution and nobody received: the
\* resolving call ran the callback and returned, the Result lies in the
\* closed channel.
C40_Witness ==
    /\ kind[1] = "ToChannel"
    /\ cbrun[1].by = << "resolver", 1 >>
    /\ cpc[1] = "returned"
    /\ yl[1].deliv = << >>
    /\ dcell[1].v = ccall[1].res
    /\ dcell[1].done = 1

====
